---- MODULE Spec2Model ----
(***************************************************************************)
(* The step/graph/caching engine of agent_build/tools/build_step.py:       *)
(* BuildStep.run, ScriptBuildStep._run, _run_in_docker, _run_locally,      *)
(* _check_for_cached_result, DockerImageSpec.load_image and FinalStep.run, *)
(* over a build-root directory tree and a docker daemon.                   *)
(***************************************************************************)
EXTENDS Integers, Sequences, FiniteSets, TLC

\* ---------------------------------------------------------------- bounds
\* Number of step objects of a graph.
NumSteps == 3
\* Longest dependency_steps list of a step.
MaxDeps == 2

VARIABLES
    steps,          \* the step objects: constructor arguments of each ScriptBuildStep
    used_steps,     \* FinalStep._used_steps
    IN_DOCKER,      \* common.IN_DOCKER
    IN_CICD,        \* common.IN_CICD
    SOURCE_ROOT,    \* the directory tree at constants.SOURCE_ROOT
    overall_info,   \* self._overall_info of each step object, <<>> while it is None
    tracked_file_paths, \* self._tracked_file_paths of each step object, <<>> while None
    ALL_DEPLOYMENTS, \* the registry: deployment name -> Deployment object
    deployments,    \* the Deployment objects constructed so far, in order
    deployed,       \* <<the deployment deploy() was called on last, and what it raised>>
    result_steps,   \* <<what all_used_cacheable_steps returned last, and for which step>>
    previous,       \* history: <<the steps, the tree and the ids before the last edit>>
    output_dirs,    \* <build_root>/step_outputs/<id>: id -> directory content
    temp_dirs,      \* <build_root>/step_outputs/~<id>: id -> directory content
    source_roots,   \* <build_root>/step_isolated_source_roots/<id>: id -> content
    images,         \* docker daemon: local images, name -> what the image holds
    container,      \* docker daemon: the container named container_name, <<>> if none
    stack,          \* the call stack of BuildStep.run frames, innermost last
    next_used,      \* FinalStep.run: index of the next used step
    status,         \* "idle", "running", "done", "failed", "killed"
    error,          \* the exception that ended the last run, <<>> if none
    error_log,      \* what ScriptBuildStep._run wrote with logging.error, <<>> if nothing
    last_cmd,       \* the last external command the engine issued
    executions,     \* history: ids whose command was started in the current run, in order
    rerun,          \* history: the previous run succeeded and the build-root is as it left it
    peer            \* a second build process on the same machine, while it is not scheduled

vars == <<steps, used_steps, IN_DOCKER, IN_CICD, SOURCE_ROOT, overall_info,
          tracked_file_paths,
          ALL_DEPLOYMENTS, deployments, deployed, result_steps, previous, output_dirs,
          temp_dirs, source_roots, images, container, stack, next_used, status, error,
          error_log, last_cmd, executions, rerun, peer>>

StepObjects == 1..NumSteps

\* ------------------------------------------------------------ step objects
\* The base_step argument of ScriptBuildStep.__init__: None, a DockerImageSpec, or a step.
\* Steps are constructed bottom-up, so a step only refers to steps constructed before it.
\* A DockerImageSpec is <<spec>> where one is given and <<>> for None.
UbuntuImage == [name |-> <<"ubuntu:20.04">>, architecture |-> "x86_64"]

BaseArgsOver(s, specs) ==
    {[kind |-> "none", step |-> 0, image |-> <<>>]}
        \cup {[kind |-> "image", step |-> 0, image |-> <<im>>] : im \in specs}
        \cup {[kind |-> "step", step |-> b, image |-> <<>>] : b \in 1..(s - 1)}

BaseArgs(s) == BaseArgsOver(s, {UbuntuImage})

Range(q) == {q[i] : i \in DOMAIN q}

IsInjective(q) == \A i, j \in DOMAIN q : q[i] = q[j] => i = j

DepLists(s) ==
    {q \in UNION {[1..n -> 1..(s - 1)] : n \in 0..MaxDeps} : IsInjective(q)}

StepArgs(s) ==
    [name : {<<"S", "t", "e", "p">>},
     script_path : {<<"steps", "build.sh">>},
     is_dependency_step : BOOLEAN,
     base_step : BaseArgs(s),
     dependency_steps : DepLists(s),
     additional_settings : {<<>>},
     ci_cd_settings : {[cacheable |-> FALSE]},
     TRACKED_FILE_GLOBS : {<<>>}]

ArgLists == {g \in [StepObjects -> UNION {StepArgs(s) : s \in StepObjects}] :
                \A s \in StepObjects : g[s] \in StepArgs(s)}

\* self._base_step of ScriptBuildStep.__init__: the base step object, 0 for None.
BaseStepOf(g, s) == IF g[s].base_step.kind = "step" THEN g[s].base_step.step ELSE 0

\* str.lower() on a sequence of characters.
LowerChar(c) ==
    CASE c = "S" -> "s"
      [] c = "T" -> "t"
      [] c = "E" -> "e"
      [] c = "P" -> "p"
      [] OTHER -> c

Lower(str) == [i \in DOMAIN str |-> LowerChar(str[i])]

\* hashlib.sha256(...).hexdigest(): a collision-free digest, lowercase hex.
Sha256Hex(data) == <<"sha256", data>>

\* ------------------------------------------------------------ source tree
\* constants.SOURCE_ROOT as a directory tree: SOURCE_ROOT.entries maps the path of every
\* file and directory below the root (a sequence of names) to its kind and bytes (a
\* sequence of chunks of text), SOURCE_ROOT.listing is the order in which the file
\* system yields the paths. The absolute path of the root itself has these parts:
SourceRootParts == <<"/", "scalyr-agent-2">>

DockerignorePath == <<".dockerignore">>

\* The names and chunks of text in use, in the order of Python's string comparison.
NameOrder == <<"\n", "*", "**", ".dockerignore", "/", "a", "b", "build.sh", "k", "steps",
               "v", "w", "y">>

Rank(name) == CHOOSE i \in DOMAIN NameOrder : NameOrder[i] = name

\* Comparison of two paths, and of two tuples of strings: part by part.
RECURSIVE PathLess(_, _)

PathLess(p, q) ==
    IF p = <<>> THEN q # <<>>
    ELSE IF q = <<>> THEN FALSE
    ELSE IF Head(p) = Head(q) THEN PathLess(Tail(p), Tail(q))
    ELSE Rank(Head(p)) < Rank(Head(q))

\* Mutant: the list is left in the order it has.
NotSorted(list) == list

\* sorted(list) of a list of paths or of tuples of strings: every element is inserted
\* into the sorted rest, before the first element that is not less than it.
RECURSIVE Insert(_, _)

Insert(e, list) ==
    IF list = <<>> THEN <<e>>
    ELSE IF PathLess(Head(list), e) THEN <<Head(list)>> \o Insert(e, Tail(list))
    ELSE <<e>> \o list

RECURSIVE Sorted(_)

Sorted(list) ==
    IF list = <<>> THEN <<>> ELSE Insert(Head(list), Sorted(Tail(list)))

\* str(path): the parts joined by "/".
RECURSIVE PathStr(_)

PathStr(path) ==
    IF Len(path) <= 1 THEN path ELSE <<Head(path), "/">> \o PathStr(Tail(path))

\* str.split(sep) on a sequence of chunks.
RECURSIVE Split(_, _)

Split(text, sep) ==
    IF \A i \in DOMAIN text : text[i] # sep THEN <<text>>
    ELSE LET n == CHOOSE i \in DOMAIN text :
                      text[i] = sep /\ \A j \in 1..(i - 1) : text[j] # sep
         IN <<SubSeq(text, 1, n - 1)>> \o Split(SubSeq(text, n + 1, Len(text)), sep)

\* pl.Path(line) of a line of .dockerignore, made relative when it starts with "/": the
\* parts between the separators, empty parts dropped.
IgnoreGlob(line) == SelectSeq(Split(line, "/"), LAMBDA part : part # <<>>)

\* The one chunk of every part of a glob.
Chunks(parts) == [j \in DOMAIN parts |-> parts[j][1]]

IgnoreGlobsOf(lines) == [i \in DOMAIN lines |-> Chunks(IgnoreGlob(lines[i]))]

\* The globs of the non-empty lines of the text of .dockerignore, each a sequence of
\* parts, a part being the one chunk between two separators.
IgnoreGlobs(text) ==
    IgnoreGlobsOf(SelectSeq(Split(text, "\n"), LAMBDA line : line # <<>>))

\* fnmatch of one name against one part of a pattern.
NameMatches(part, name) == part \in {"*", "**"} \/ part = name

\* Path.glob(pattern) below the root: the pattern is matched from the root, part by
\* part, "**" standing for any number of directories.
RECURSIVE GlobMatches(_, _)

GlobMatches(pattern, path) ==
    IF pattern = <<>> THEN path = <<>>
    ELSE IF Head(pattern) = "**"
         THEN \/ GlobMatches(Tail(pattern), path)
              \/ path # <<>> /\ GlobMatches(pattern, Tail(path))
         ELSE /\ path # <<>>
              /\ NameMatches(Head(pattern), Head(path))
              /\ GlobMatches(Tail(pattern), Tail(path))

\* constants.SOURCE_ROOT / path, and path.relative_to(root).
AbsPath(path) == SourceRootParts \o path

RelativeTo(path, root) == SubSeq(path, Len(root) + 1, Len(path))

\* SOURCE_ROOT.glob(pattern): the absolute paths of the entries the pattern matches.
Glob(tree, pattern) ==
    {AbsPath(path) : path \in {p \in DOMAIN tree.entries : GlobMatches(pattern, p)}}

\* PurePath.match(pattern) of an absolute path with a relative pattern: the pattern is
\* matched from the right, part by part, against as many parts of the path.
PathMatch(path, pattern) ==
    /\ Len(pattern) <= Len(path)
    /\ \A i \in DOMAIN pattern :
          NameMatches(pattern[i], path[Len(path) - Len(pattern) + i])

\* path.is_dir() of the absolute path of an entry.
IsDir(tree, path) == tree.entries[RelativeTo(path, SourceRootParts)].kind = "dir"

IsBelow(path, dir) == Len(dir) < Len(path) /\ SubSeq(path, 1, Len(dir)) = dir

\* ex_path.glob("**/*"): everything below a directory.
Children(tree, ex_path) ==
    {AbsPath(path) : path \in {p \in DOMAIN tree.entries : IsBelow(AbsPath(p), ex_path)}}

\* list(a_set): the elements in the order the file system yielded them.
SetToList(tree, paths) ==
    SelectSeq([i \in DOMAIN tree.listing |-> AbsPath(tree.listing[i])],
              LAMBDA path : path \in paths)

\* BuildStep._tracked_file_globs with ScriptBuildStep's override: the globs of the class,
\* then the script path.
TrackedFileGlobs(g, s) == g[s].TRACKED_FILE_GLOBS \o <<g[s].script_path>>

\* file_glob.relative_to(constants.SOURCE_ROOT) of an absolute glob.
RelativeGlob(glob) ==
    IF glob # <<>> /\ Head(glob) = "/" THEN RelativeTo(glob, SourceRootParts) ELSE glob

\* Mutant: the directories stay in the list.
KeepDirectories(tree, paths) == paths

\* list(filter(lambda p: not p.is_dir(), filtered_paths))
RemoveDirectories(tree, paths) == SelectSeq(paths, LAMBDA path : ~IsDir(tree, path))

\* Lines 159-164: the paths the globs find.
FoundPaths(tree, globs) ==
    UNION {Glob(tree, RelativeGlob(globs[i])) : i \in DOMAIN globs}

\* Lines 182-186: the found paths that match a glob of .dockerignore.
Matched(found_paths, ignore) ==
    {f \in found_paths : \E i \in DOMAIN ignore : PathMatch(f, ignore[i])}

\* Lines 189-193: with everything below those of them that are directories.
PathsExcluded(tree, matched) ==
    matched \cup UNION {Children(tree, ex_path) :
                           ex_path \in {m \in matched : IsDir(tree, m)}}

\* Lines 196-201: the found paths that are not excluded, without the directories, and
\* .dockerignore after them.
FilteredPaths(tree, found_paths, ignore) ==
    Append(RemoveDirectories(tree,
               SetToList(tree,
                         found_paths \ PathsExcluded(tree, Matched(found_paths, ignore)))),
           AbsPath(DockerignorePath))

\* Lines 202-204
RelativePaths(paths) == [i \in DOMAIN paths |-> RelativeTo(paths[i], SourceRootParts)]

\* BuildStep.tracked_file_paths for the globs of a step over a source tree.
TrackedFilePathsOf(tree, globs) ==
    Sorted(RelativePaths(FilteredPaths(tree, FoundPaths(tree, globs),
                                       IgnoreGlobs(tree.entries[DockerignorePath].bytes))))

\* BuildStep.tracked_file_paths: self._tracked_file_paths once it is set.
TrackedFilePaths(g, s) ==
    IF tracked_file_paths[s] # <<>> THEN tracked_file_paths[s][1]
    ELSE TrackedFilePathsOf(SOURCE_ROOT, TrackedFileGlobs(g, s))

\* calculate_files_checksum: the digest of the text str(path) + bytes of the files in
\* sorted order, one after the other.
RECURSIVE FilesText(_, _)

FilesText(tree, files) ==
    IF files = <<>> THEN <<>>
    ELSE PathStr(Head(files)) \o tree.entries[Head(files)].bytes
             \o FilesText(tree, Tail(files))

CalculateFilesChecksum(tree, files) == Sha256Hex(FilesText(tree, Sorted(files)))

RECURSIVE OverallInfo(_, _)
RECURSIVE BaseDockerImage(_, _)
RECURSIVE OverallInfoStr(_, _)
RECURSIVE JsonDumps(_)

\* BuildStep.id: f"{self.name}__{checksum}".lower(), a string, as a sequence whose last
\* element is the hex digest (lowercase digits, which lower() leaves as they are).
StepIdOf(name, info) == Lower(name \o <<"_", "_">>) \o <<Sha256Hex(info)>>

\* Mutant: the id is the lowered name alone, without the digest of overall_info_str.
IdOfName(g, s) == Lower(g[s].name \o <<"_", "_">>)

Id(g, s) == StepIdOf(g[s].name, OverallInfoStr(g, s))

\* Mutant: only a step with a base image of its own runs in docker.
RunsInDockerOwnImage(g, s) == g[s].base_step.kind = "image"

\* ScriptBuildStep.runs_in_docker
RunsInDocker(g, s) == BaseDockerImage(g, s) # <<>>

\* Mutant: the image name is the id without lower().
ResultImageNotLowered(g, s) ==
    IF RunsInDocker(g, s)
    THEN <<[name |-> g[s].name \o <<"_", "_">> \o <<Sha256Hex(OverallInfoStr(g, s))>>,
            architecture |-> BaseDockerImage(g, s)[1].architecture]>>
    ELSE <<>>

\* Mutant: the result image is given the architecture of the usual host.
ResultImageOfHostArchitecture(g, s) ==
    IF RunsInDocker(g, s)
    THEN <<[name |-> Id(g, s), architecture |-> "x86_64"]>>
    ELSE <<>>

\* ScriptBuildStep.result_image: <<spec>>, or <<>> for None.
ResultImage(g, s) ==
    IF RunsInDocker(g, s)
    THEN <<[name |-> Id(g, s), architecture |-> BaseDockerImage(g, s)[1].architecture]>>
    ELSE <<>>

\* self.base_docker_image as ScriptBuildStep.__init__ sets it.
BaseDockerImage(g, s) ==
    CASE g[s].base_step.kind = "none" -> <<>>
      [] g[s].base_step.kind = "image" -> g[s].base_step.image
      [] OTHER -> ResultImage(g, g[s].base_step.step)

\* BuildStep._init_overall_info with ScriptBuildStep's addition of "docker_image".
InitOverallInfoOf(g, s, files) ==
    [name |-> g[s].name,
     used_files |-> [i \in DOMAIN files |-> PathStr(files[i])],
     files_checksum |-> CalculateFilesChecksum(SOURCE_ROOT, files),
     dependency_steps |-> [i \in DOMAIN g[s].dependency_steps |->
                              OverallInfo(g, g[s].dependency_steps[i])],
     base_step |-> IF BaseStepOf(g, s) # 0 THEN <<OverallInfo(g, BaseStepOf(g, s))>>
                   ELSE <<>>,
     additional_settings |-> g[s].additional_settings,
     docker_image |-> BaseDockerImage(g, s)]

\* self.tracked_file_paths is evaluated once and its value is what the dictionary is
\* built from.
InitOverallInfo(g, s) ==
    CHOOSE info \in {InitOverallInfoOf(g, s, files) : files \in {TrackedFilePaths(g, s)}} :
        TRUE

\* Mutant: the dictionary is built anew at every use.
OverallInfoNotKept(g, s) == InitOverallInfo(g, s)

\* BuildStep.overall_info: self._overall_info once it is set, and what
\* _init_overall_info builds until then.
OverallInfo(g, s) ==
    IF overall_info[s] # <<>> THEN overall_info[s][1] ELSE InitOverallInfo(g, s)

\* json.dumps(info, sort_keys=True): every dictionary is written with its keys in sorted
\* order, the lists in the order they have. additional_settings is the one dictionary
\* whose keys are data; it is held as the sequence of its <<name, value>> items.
JsonDumps(info) ==
    [info EXCEPT !.additional_settings = Sorted(@),
                 !.dependency_steps = [i \in DOMAIN @ |-> JsonDumps(@[i])],
                 !.base_step = [i \in DOMAIN @ |-> JsonDumps(@[i])]]

\* BuildStep.overall_info_str
OverallInfoStr(g, s) == JsonDumps(OverallInfo(g, s))

AllIds(g) == {Id(g, s) : s \in StepObjects}

\* The step graphs. is_dependency_step is read only where the step runs in docker, so
\* the steps that do not are all taken with is_dependency_step = False.
Graphs == {g \in ArgLists :
              \A s \in StepObjects : g[s].is_dependency_step => RunsInDocker(g, s)}

\* Step graphs over two base images of different architectures: the first step may be a
\* dependency step, the last one may have the first as its dependency step.
Arm64Image == [name |-> <<"arm64v8/ubuntu:20.04">>, architecture |-> "arm64"]

ImageStepArgs(s) ==
    [name : {<<"S", "t", "e", "p">>},
     script_path : {<<"steps", "build.sh">>},
     is_dependency_step : IF s = 1 THEN BOOLEAN ELSE {FALSE},
     base_step : BaseArgsOver(s, {UbuntuImage, Arm64Image}),
     dependency_steps : IF s = NumSteps /\ s > 1 THEN {<<>>, <<1>>} ELSE {<<>>},
     additional_settings : {<<>>},
     ci_cd_settings : {[cacheable |-> FALSE]},
     TRACKED_FILE_GLOBS : {<<>>}]

ImageGraphs ==
    {g \in [StepObjects -> UNION {ImageStepArgs(s) : s \in StepObjects}] :
        \A s \in StepObjects :
            /\ g[s] \in ImageStepArgs(s)
            /\ g[s].is_dependency_step => RunsInDocker(g, s)}

\* ------------------------------------------------- build root and docker
\* BuildStep.output_directory and BuildStep._temp_output_directory as paths.
OutputDirectory(id) == <<"step_outputs", id>>

TempOutputDirectory(id) == <<"step_outputs", <<"~">> \o id>>

\* The image file a containerized step saves, under a directory of the build root.
ImageFile(dir, id) == [root |-> "build_root", dir |-> dir, file |-> id \o <<".tar">>]

\* The argument load_image gives to "docker load -i": str(self.name), a relative path.
LoadImageArg(name) == [root |-> "cwd", dir |-> <<>>, file |-> name]

\* The image tar stored at a path: <<content>>, or <<>> when no such file exists. The
\* engine writes below the build root only; no file named like a step id lies in the
\* working directory.
ReadImageFile(path) ==
    IF /\ path.root = "build_root"
       /\ Len(path.dir) = 2
       /\ path.dir[2] \in DOMAIN output_dirs
       /\ path.file = path.dir[2] \o <<".tar">>
    THEN output_dirs[path.dir[2]].tar
    ELSE <<>>

\* Mutant: step_info.txt is created empty.
NewTempDirEmptyInfo(info) ==
    [step_info |-> <<>>, output |-> "none", tar |-> <<>>, skip_cache_to_cicd |-> FALSE]

\* The content of a freshly created temporary output directory (step_info.txt written).
NewTempDir(info) ==
    [step_info |-> info, output |-> "none", tar |-> <<>>, skip_cache_to_cicd |-> FALSE]

\* type(self).NO_CI_CD_CACHE
NO_CI_CD_CACHE == FALSE

container_name == "agent-build-deployment-step"

\* An image a "docker run" can start from: a local one, or one the registry serves.
ImageAvailable(name) ==
    name \in {UbuntuImage.name, Arm64Image.name} \/ name \in DOMAIN images

\* ------------------------------------------------- the command of a step
\* self._build_root / ...: an absolute path below build_root.absolute().
InBuildRoot(rel) == <<"", "build_root">> \o rel

\* ScriptBuildStep._source_root
SourceRootPath(id) == InBuildRoot(<<"step_isolated_source_roots", id>>)

\* ScriptBuildStep._in_docker_dependency_outputs_path, _in_docker_source_root_path and
\* in_docker_output_path of _run_in_docker.
InDockerDependencyOutputsPath == <<"", "tmp", "step", "dependencies">>

InDockerSourceRootPath == <<"", "tmp", "agent_source">>

InDockerOutputPath == <<"", "tmp", "step", "output">>

\* path.name and path.suffix
Name(path) == path[Len(path)]

Suffix(path) ==
    CASE Name(path) = "build.sh" -> ".sh"
      [] OTHER -> ""

\* _get_command_line_args: required_steps_outputs.
RequiredStepsOutputs(g, s) ==
    [i \in DOMAIN g[s].dependency_steps |->
        LET output_directory == OutputDirectory(Id(g, g[s].dependency_steps[i]))
        IN IF RunsInDocker(g, s)
           THEN PathStr(Append(InDockerDependencyOutputsPath, Name(output_directory)))
           ELSE PathStr(InBuildRoot(output_directory))]

\* The shell interpreter of the script: <<interpreter>>, and <<>> for a suffix that is
\* none of the three (full_command_args is not bound then).
Interpreter(rel_script_path) ==
    CASE Suffix(rel_script_path) = ".ps1" -> <<<<"powershell">>>>
      [] Suffix(rel_script_path) = ".sh" -> <<<<"/bin/bash">>>>
      [] Suffix(rel_script_path) = ".py" -> <<<<"python3">>>>
      [] OTHER -> <<>>

\* ScriptBuildStep._get_command_line_args
GetCommandLineArgs(g, s) ==
    Interpreter(g[s].script_path) \o <<PathStr(g[s].script_path)>>
        \o RequiredStepsOutputs(g, s)

\* os.environ of the build process.
Environ == "PATH" :> <<"/usr/bin">>

\* env[name] = value
Assign(env, name, value) ==
    [n \in DOMAIN env \cup {name} |-> IF n = name THEN value ELSE env[n]]

\* The value of a setting is <<>> for None and the string otherwise; str(value).
Str(value) == IF value = <<>> THEN <<"None">> ELSE value

\* _run_locally: the loop over self._additional_settings.items().
RECURSIVE SetSettings(_, _)

SetSettings(env, items) ==
    IF items = <<>> THEN env
    ELSE SetSettings(IF Head(items)[2] = <<>> THEN env
                     ELSE Assign(env, Head(items)[1], Head(items)[2]),
                     Tail(items))

\* _run_locally: the environment of the command.
RunLocallyEnv(settings, id, in_cicd) ==
    LET env == Assign(SetSettings(Assign(Environ, "STEP_OUTPUT_PATH",
                                         PathStr(InBuildRoot(TempOutputDirectory(id)))),
                                  settings),
                      "SOURCE_ROOT", PathStr(SourceRootPath(id)))
    IN IF in_cicd THEN Assign(env, "IN_CICD", <<"1">>) ELSE env

\* _run_in_docker: env_variables_options, the "-e" before each left out. An option is
\* f"{name}={value}".
EnvVariablesOptions(settings) ==
    [i \in DOMAIN settings |-> <<settings[i][1], "=">> \o Str(settings[i][2])]
        \o <<<<"STEP_OUTPUT_PATH", "=">> \o PathStr(InDockerOutputPath),
             <<"SOURCE_ROOT", "=">> \o PathStr(InDockerSourceRootPath),
             <<"AGENT_BUILD_IN_DOCKER", "=", "1">>>>

\* _run_in_docker: volumes_mapping, the "-v" before each left out. An option is
\* f"{host}:{target}", held as the two paths.
VolumesMapping(g, s, id) ==
    <<[host |-> PathStr(SourceRootPath(id)), target |-> PathStr(InDockerSourceRootPath)],
      [host |-> PathStr(InBuildRoot(TempOutputDirectory(id))),
       target |-> PathStr(InDockerOutputPath)]>>
        \o [i \in DOMAIN g[s].dependency_steps |->
               LET output_directory == OutputDirectory(Id(g, g[s].dependency_steps[i]))
               IN [host |-> PathStr(InBuildRoot(output_directory)),
                   target |-> PathStr(Append(InDockerDependencyOutputsPath,
                                             Name(output_directory)))]]

\* ------------------------------------------------------------- call stack
Top == stack[Len(stack)]

Self == Top.step

SelfId == Id(steps, Self)

\* A frame of run: the step, where the call is, the index of the next dependency step,
\* whether an exception is on its way through a finally clause, and (history) which
\* directories left by an earlier execution the call has removed.
NewFrame(s) == [step |-> s, pc |-> "check", i |-> 1, exc |-> FALSE, removed |-> {}]

SetTop(f) == [stack EXCEPT ![Len(stack)] = f]

Pop == SubSeq(stack, 1, Len(stack) - 1)

At(pc) == status = "running" /\ stack # <<>> /\ Top.pc = pc

Goto(pc) == stack' = SetTop([Top EXCEPT !.pc = pc])

\* Mutant: the loop of FinalStep.run catches the exception and goes on with the next
\* used step.
RaiseCaughtByCaller(exception) ==
    /\ stack' = <<>>
    /\ status' = status
    /\ error' = <<exception>>

\* An exception leaves every frame: nothing in run or FinalStep.run catches it.
Raise(exception) ==
    /\ stack' = <<>>
    /\ status' = "failed"
    /\ error' = <<exception>>

\* Mutant: the message does not name the step.
DeploymentStepErrorUnnamed(id) == [type |-> "DeploymentStepError", values |-> <<>>]

\* The exception ScriptBuildStep._run raises: DeploymentStepError(f"Step has failed.
\* Step name: '{self.id}'."), as the values its message is formatted from.
DeploymentStepError(id) == [type |-> "DeploymentStepError", values |-> <<id>>]

\* What _run logs before: f"... For now, tracked files are: {globs}", as the values
\* the text is formatted from (the class name aside).
StepErrorLog(g, s) == [values |-> <<TrackedFileGlobs(g, s)>>]

\* An exception or log text carries a value when the value was formatted into it.
Carries(text, value) == \E i \in DOMAIN text.values : text.values[i] = value

RaiseStepError ==
    /\ Raise(DeploymentStepError(SelfId))
    /\ error_log' = <<StepErrorLog(steps, Self)>>

Registry == <<ALL_DEPLOYMENTS, deployments, deployed, result_steps>>

\* No deployment was created and nothing was asked yet.
RegistryEmpty ==
    /\ ALL_DEPLOYMENTS = <<>>
    /\ deployments = <<>>
    /\ deployed = <<>>
    /\ result_steps = <<>>

Env == <<steps, used_steps, IN_DOCKER, IN_CICD, SOURCE_ROOT, overall_info,
        tracked_file_paths,
        Registry, previous, peer>>

Docker == <<images, container>>

Dirs == <<output_dirs, temp_dirs, source_roots>>

Outcome == <<status, error, error_log>>

\* ------------------------------------------------------------------ Init
\* self._overall_info = None of every step object.
NotInitialized == [s \in StepObjects |-> <<>>]

\* What a build process holds in its own memory: its step objects' memos, the steps it
\* was asked to run, its call stack and what it has reported. NoPeer is a second
\* process that was never started.
NoPeer ==
    [pid |-> 2, used_steps |-> <<>>, overall_info |-> NotInitialized,
     tracked_file_paths |-> NotInitialized, stack |-> <<>>, next_used |-> 1,
     status |-> "idle", error |-> <<>>, error_log |-> <<>>, last_cmd |-> [cmd |-> "none"],
     executions |-> <<>>, rerun |-> FALSE]

\* The process that is scheduled.
Pid == 3 - peer.pid

\* The source tree of the step graphs above: the script of the steps and an empty
\* .dockerignore.
ScriptTree ==
    [entries |-> (<<".dockerignore">> :> [kind |-> "file", bytes |-> <<>>])
                 @@ (<<"steps">> :> [kind |-> "dir", bytes |-> <<>>])
                 @@ (<<"steps", "build.sh">> :> [kind |-> "file", bytes |-> <<"a">>]),
     listing |-> <<<<"steps">>, <<"steps", "build.sh">>, <<".dockerignore">>>>]

UsedLists(g) ==
    LET roots == {s \in StepObjects :
                    \A t \in StepObjects :
                        /\ BaseStepOf(g, t) # s
                        /\ \A i \in DOMAIN g[t].dependency_steps :
                              g[t].dependency_steps[i] # s}
        Ordered(S) == CHOOSE q \in [1..Cardinality(S) -> S] :
                          \A i, j \in 1..Cardinality(S) : i < j => q[i] < q[j]
    IN {Ordered(roots)}

Init ==
    /\ SOURCE_ROOT = ScriptTree
    /\ overall_info = NotInitialized
    /\ tracked_file_paths = NotInitialized
    /\ RegistryEmpty
    /\ previous = <<>>
    /\ steps \in Graphs
    /\ used_steps \in UsedLists(steps)
    /\ IN_DOCKER \in BOOLEAN
    /\ IN_CICD = TRUE
    /\ output_dirs = <<>>
    /\ temp_dirs = <<>>
    /\ source_roots = <<>>
    /\ images = <<>>
    /\ container = <<>>
    /\ stack = <<>>
    /\ next_used = 1
    /\ status = "idle"
    /\ error = <<>>
    /\ error_log = <<>>
    /\ last_cmd = [cmd |-> "none"]
    /\ executions = <<>>
    /\ rerun = FALSE
    /\ peer = NoPeer

\* ------------------------------------------------------------ FinalStep.run
StartRun ==
    /\ status # "running"
    /\ status' = "running"
    /\ rerun' = (status = "done")
    /\ next_used' = 1
    /\ stack' = <<>>
    /\ error' = <<>>
    /\ error_log' = <<>>
    /\ executions' = <<>>
    /\ last_cmd' = [cmd |-> "none"]
    /\ UNCHANGED <<Env, Dirs, Docker>>

RunUsedStep ==
    /\ status = "running"
    /\ stack = <<>>
    /\ next_used <= Len(used_steps)
    /\ stack' = <<NewFrame(used_steps[next_used])>>
    /\ next_used' = next_used + 1
    /\ UNCHANGED <<Env, Dirs, Docker, Outcome, last_cmd, executions, rerun>>

FinalRun ==
    /\ status = "running"
    /\ stack = <<>>
    /\ next_used > Len(used_steps)
    /\ status' = "done"
    /\ UNCHANGED <<Env, Dirs, Docker, stack, next_used, error, error_log, last_cmd,
                   executions, rerun>>

\* ------------------------------------------------------------ BuildStep.run
\* ScriptBuildStep._check_for_cached_result finds the output directory: the step is
\* skipped. For a step that runs in docker and is no dependency step, load_image runs:
\* "docker images -q <name>", and "docker load -i <name>" when that printed nothing.
NeedsImage(s) == RunsInDocker(steps, s) /\ ~steps[s].is_dependency_step

\* Mutant: a cached step still runs the steps it is built on.
CacheHitRunsUpstream ==
    /\ At("check")
    /\ SelfId \in DOMAIN output_dirs
    /\ Goto("output")
    /\ UNCHANGED <<Env, Dirs, Docker, next_used, Outcome, last_cmd, executions, rerun>>

CacheHit ==
    /\ At("check")
    /\ SelfId \in DOMAIN output_dirs
    /\ \/ /\ ~NeedsImage(Self)
          /\ stack' = Pop
          /\ UNCHANGED <<images, Outcome, last_cmd>>
       \/ /\ NeedsImage(Self)
          /\ SelfId \in DOMAIN images
          /\ last_cmd' = [cmd |-> "docker images", name |-> SelfId]
          /\ stack' = Pop
          /\ UNCHANGED <<images, Outcome>>
       \/ /\ NeedsImage(Self)
          /\ SelfId \notin DOMAIN images
          /\ last_cmd' = [cmd |-> "docker load", input |-> LoadImageArg(SelfId)]
          /\ LET tar == ReadImageFile(LoadImageArg(SelfId))
             IN IF tar # <<>>
                THEN /\ images' = (tar[1].name :> tar[1].holds) @@ images
                     /\ stack' = Pop
                     /\ UNCHANGED Outcome
                ELSE /\ Raise([type |-> "CalledProcessError", values |-> <<>>])
                     /\ UNCHANGED <<images, error_log>>
    /\ UNCHANGED <<Env, Dirs, container, next_used, executions, rerun>>

\* Mutant: the step is run without looking for its output directory.
CacheMissUnchecked ==
    /\ At("check")
    /\ Goto("deps")
    /\ UNCHANGED <<Env, Dirs, Docker, next_used, Outcome, last_cmd, executions, rerun>>

CacheMiss ==
    /\ At("check")
    /\ SelfId \notin DOMAIN output_dirs
    /\ Goto("deps")
    /\ UNCHANGED <<Env, Dirs, Docker, next_used, Outcome, last_cmd, executions, rerun>>

\* Mutant: a dependency step is passed over.
RunDependencyStepSkipped ==
    /\ At("deps")
    /\ Top.i <= Len(steps[Self].dependency_steps)
    /\ stack' = SetTop([Top EXCEPT !.i = Top.i + 1])
    /\ UNCHANGED <<Env, Dirs, Docker, next_used, Outcome, last_cmd, executions, rerun>>

\* Mutant: the loop over the dependency steps does not move on to the next one.
RunDependencyStepAgain ==
    /\ At("deps")
    /\ Top.i <= Len(steps[Self].dependency_steps)
    /\ stack' = Append(stack, NewFrame(steps[Self].dependency_steps[Top.i]))
    /\ UNCHANGED <<Env, Dirs, Docker, next_used, Outcome, last_cmd, executions, rerun>>

\* for step in self._dependency_steps: step.run(build_root=build_root)
RunDependencyStep ==
    /\ At("deps")
    /\ Top.i <= Len(steps[Self].dependency_steps)
    /\ stack' = Append(SetTop([Top EXCEPT !.i = Top.i + 1]),
                       NewFrame(steps[Self].dependency_steps[Top.i]))
    /\ UNCHANGED <<Env, Dirs, Docker, next_used, Outcome, last_cmd, executions, rerun>>

\* if self._base_step: self._base_step.run(build_root=build_root)
RunBaseStep ==
    /\ At("deps")
    /\ Top.i > Len(steps[Self].dependency_steps)
    /\ BaseStepOf(steps, Self) # 0
    /\ stack' = Append(SetTop([Top EXCEPT !.pc = "output"]),
                       NewFrame(BaseStepOf(steps, Self)))
    /\ UNCHANGED <<Env, Dirs, Docker, next_used, Outcome, last_cmd, executions, rerun>>

\* Mutant: a temporary directory that is there is used as it is (no rmtree).
CreateTempOutputInStale ==
    /\ \/ At("output")
       \/ /\ At("deps")
          /\ Top.i > Len(steps[Self].dependency_steps)
          /\ BaseStepOf(steps, Self) = 0
    /\ temp_dirs' = IF SelfId \in DOMAIN temp_dirs
                    THEN [temp_dirs EXCEPT ![SelfId].step_info = OverallInfoStr(steps, Self)]
                    ELSE (SelfId :> NewTempDir(OverallInfoStr(steps, Self))) @@ temp_dirs
    /\ stack' = SetTop([Top EXCEPT !.pc = "source",
                                   !.removed = IF SelfId \in DOMAIN temp_dirs
                                               THEN @ \cup {"temp"} ELSE @])
    /\ UNCHANGED <<Env, output_dirs, source_roots, Docker, next_used, Outcome, last_cmd,
                   executions, rerun>>

\* rmtree of a stale temporary directory, mkdir, step_info.txt
CreateTempOutput ==
    /\ \/ At("output")
       \/ /\ At("deps")
          /\ Top.i > Len(steps[Self].dependency_steps)
          /\ BaseStepOf(steps, Self) = 0
    /\ temp_dirs' = (SelfId :> NewTempDir(OverallInfoStr(steps, Self))) @@ temp_dirs
    /\ stack' = SetTop([Top EXCEPT !.pc = "source",
                                   !.removed = IF SelfId \in DOMAIN temp_dirs
                                               THEN @ \cup {"temp"} ELSE @])
    /\ UNCHANGED <<Env, output_dirs, source_roots, Docker, next_used, Outcome, last_cmd,
                   executions, rerun>>

\* shutil.copy2 of every tracked file to the same relative path in a directory: the
\* files of the directory, and no file of the command's own yet.
CopyTrackedFiles(tree, paths) ==
    [files |-> {<<paths[i], tree.entries[paths[i]].bytes>> : i \in DOMAIN paths},
     left |-> FALSE]

\* Mutant: a source root that is there is copied into as it is (no rmtree).
PrepareWorkingSourceRootInStale ==
    /\ At("source")
    /\ LET copied == CopyTrackedFiles(SOURCE_ROOT, TrackedFilePaths(steps, Self))
       IN source_roots' =
             IF SelfId \in DOMAIN source_roots
             THEN [source_roots EXCEPT ![SelfId].files = copied.files]
             ELSE (SelfId :> copied) @@ source_roots
    /\ stack' = SetTop([Top EXCEPT
                           !.pc = IF RunsInDocker(steps, Self) /\ ~IN_DOCKER
                                  THEN "docker_rm" ELSE "local",
                           !.removed = IF SelfId \in DOMAIN source_roots
                                       THEN @ \cup {"source"} ELSE @])
    /\ UNCHANGED <<Env, output_dirs, temp_dirs, Docker, next_used, Outcome, last_cmd,
                   executions, rerun>>

\* Mutant: the directory of all isolated source roots is removed, not the step's own.
PrepareWorkingSourceRootClearsAll ==
    /\ At("source")
    /\ source_roots' = (SelfId :> CopyTrackedFiles(SOURCE_ROOT,
                                                  TrackedFilePaths(steps, Self)))
    /\ stack' = SetTop([Top EXCEPT
                           !.pc = IF RunsInDocker(steps, Self) /\ ~IN_DOCKER
                                  THEN "docker_rm" ELSE "local",
                           !.removed = IF SelfId \in DOMAIN source_roots
                                       THEN @ \cup {"source"} ELSE @])
    /\ UNCHANGED <<Env, output_dirs, temp_dirs, Docker, next_used, Outcome, last_cmd,
                   executions, rerun>>

\* ScriptBuildStep._run: _prepare_working_source_root (rmtree of a source root that is
\* there, mkdir, the copies), then the choice of the backend.
PrepareWorkingSourceRoot ==
    /\ At("source")
    /\ source_roots' = (SelfId :> CopyTrackedFiles(SOURCE_ROOT,
                                                  TrackedFilePaths(steps, Self)))
                           @@ source_roots
    /\ stack' = SetTop([Top EXCEPT
                           !.pc = IF RunsInDocker(steps, Self) /\ ~IN_DOCKER
                                  THEN "docker_rm" ELSE "local",
                           !.removed = IF SelfId \in DOMAIN source_roots
                                       THEN @ \cup {"source"} ELSE @])
    /\ UNCHANGED <<Env, output_dirs, temp_dirs, Docker, next_used, Outcome, last_cmd,
                   executions, rerun>>

\* The step's command has written into STEP_OUTPUT_PATH and exits with 0 or not; it
\* leaves files of its own in its working directory, the isolated source root. Nothing
\* is written into a directory that is not there any more.
WriteOutput(ok) ==
    /\ temp_dirs' = IF SelfId \in DOMAIN temp_dirs
                    THEN [temp_dirs EXCEPT
                             ![SelfId].output = IF ok THEN "complete" ELSE "partial"]
                    ELSE temp_dirs
    /\ source_roots' = IF SelfId \in DOMAIN source_roots
                       THEN [source_roots EXCEPT ![SelfId].left = TRUE]
                       ELSE source_roots

\* ScriptBuildStep._run_locally: check_call_with_log(command_args, ...)
RunLocallyStart ==
    /\ At("local")
    /\ IF Interpreter(steps[Self].script_path) = <<>>
       THEN /\ RaiseStepError
            /\ UNCHANGED <<last_cmd, executions>>
       ELSE /\ last_cmd' = [cmd |-> "script", output |-> TempOutputDirectory(SelfId),
                            args |-> GetCommandLineArgs(steps, Self),
                            env |-> RunLocallyEnv(steps[Self].additional_settings,
                                                  SelfId, IN_CICD),
                            cwd |-> PathStr(SourceRootPath(SelfId))]
            /\ executions' = Append(executions, SelfId)
            /\ Goto("local_wait")
            /\ UNCHANGED Outcome
    /\ UNCHANGED <<Env, Dirs, Docker, next_used, rerun>>

\* Mutant: the exit status of the command is not looked at.
RunLocallyExitUnchecked ==
    /\ At("local_wait")
    /\ \E ok \in BOOLEAN : WriteOutput(ok)
    /\ Goto("rename")
    /\ UNCHANGED <<Env, output_dirs, Docker, next_used, Outcome, last_cmd, executions,
                   rerun>>

RunLocallyExit ==
    /\ At("local_wait")
    /\ \E ok \in BOOLEAN :
          /\ WriteOutput(ok)
          /\ IF ok THEN Goto("rename") /\ UNCHANGED Outcome ELSE RaiseStepError
    /\ UNCHANGED <<Env, output_dirs, Docker, next_used, last_cmd, executions, rerun>>

\* ------------------------------------------------ ScriptBuildStep._run_in_docker
\* Mutant: the container is created from the base image of the base step, not from the
\* image the base step resulted in.
RunBaseImageOfBaseStep(g, s) ==
    IF BaseStepOf(g, s) # 0 THEN BaseDockerImage(g, BaseStepOf(g, s))
    ELSE BaseDockerImage(g, s)

\* The image the container is created from.
RunBaseImage(g, s) ==
    IF BaseStepOf(g, s) # 0 THEN ResultImage(g, BaseStepOf(g, s)) ELSE BaseDockerImage(g, s)

\* Mutant: the exception is swallowed after the finally clause.
FailSwallowed == stack' = SetTop([Top EXCEPT !.pc = "docker_finally"])

\* An exception inside the try block: the finally clause runs next, then it propagates.
Fail == stack' = SetTop([Top EXCEPT !.pc = "docker_finally", !.exc = TRUE])

\* cmd_args = self._get_command_line_args(), then "docker rm -f <container_name>"
\* before the container is created.
DockerRemoveStale ==
    /\ At("docker_rm")
    /\ IF Interpreter(steps[Self].script_path) = <<>>
       THEN /\ RaiseStepError
            /\ UNCHANGED <<last_cmd, container>>
       ELSE /\ last_cmd' = [cmd |-> "docker rm", name |-> container_name]
            /\ container' = <<>>
            /\ Goto("docker_run")
            /\ UNCHANGED Outcome
    /\ UNCHANGED <<Env, Dirs, images, next_used, executions, rerun>>

\* "docker run -i --name <container_name> ... <image> <command>": the container is
\* created and the command starts, unless the image cannot be had or the name is taken.
\* The docker client of the process stays attached to the container it created.
DockerRunStart ==
    /\ At("docker_run")
    /\ LET image == RunBaseImage(steps, Self)[1]
       IN /\ last_cmd' = [cmd |-> "docker run", name |-> container_name,
                          image |-> image.name, platform |-> image.architecture,
                          output |-> TempOutputDirectory(SelfId),
                          volumes |-> VolumesMapping(steps, Self, SelfId),
                          env |-> EnvVariablesOptions(steps[Self].additional_settings),
                          workdir |-> PathStr(InDockerSourceRootPath),
                          args |-> GetCommandLineArgs(steps, Self)]
          /\ IF ImageAvailable(image.name) /\ container = <<>>
             THEN /\ container' = <<[image |-> image.name, step |-> SelfId,
                                     running |-> TRUE, owner |-> Pid]>>
                  /\ executions' = Append(executions, SelfId)
                  /\ Goto("docker_wait")
             ELSE /\ Fail
                  /\ UNCHANGED <<container, executions>>
    /\ UNCHANGED <<Env, Dirs, images, next_used, Outcome, rerun>>

\* The command exits, or the container was removed under it and "docker run" returns
\* with an error.
DockerRunExit ==
    /\ At("docker_wait")
    /\ IF container # <<>> /\ container[1].owner = Pid
       THEN /\ \E ok \in BOOLEAN :
                  /\ WriteOutput(ok)
                  /\ IF ok THEN Goto("docker_commit") ELSE Fail
            /\ container' = <<[container[1] EXCEPT !.running = FALSE]>>
       ELSE /\ WriteOutput(FALSE)
            /\ Fail
            /\ UNCHANGED container
    /\ UNCHANGED <<Env, output_dirs, images, next_used, Outcome, last_cmd, executions,
                   rerun>>

\* Mutant: the container of a dependency step is committed as an image all the same.
CommitImageOfDependencyStep ==
    /\ At("docker_commit")
    /\ steps[Self].is_dependency_step
    /\ images' = (ResultImage(steps, Self)[1].name :> container[1].step) @@ images
    /\ Goto("docker_finally")
    /\ UNCHANGED <<Env, Dirs, container, next_used, Outcome, last_cmd, executions, rerun>>

\* _save_step_docker_container_as_image_if_needed of a dependency step: nothing to save.
SkipImageOfDependencyStep ==
    /\ At("docker_commit")
    /\ steps[Self].is_dependency_step
    /\ Goto("docker_finally")
    /\ UNCHANGED <<Env, Dirs, Docker, next_used, Outcome, last_cmd, executions, rerun>>

\* "docker commit <container_name> <result_image.name>"
DockerCommit ==
    /\ At("docker_commit")
    /\ ~steps[Self].is_dependency_step
    /\ LET name == ResultImage(steps, Self)[1].name
       IN /\ last_cmd' = [cmd |-> "docker commit", container |-> container_name,
                          name |-> name]
          /\ \E ok \in BOOLEAN :
                IF ok /\ container # <<>>
                THEN /\ images' = (name :> container[1].step) @@ images
                     /\ Goto("docker_save")
                ELSE /\ Fail
                     /\ UNCHANGED images
    /\ UNCHANGED <<Env, Dirs, container, next_used, Outcome, executions, rerun>>

\* result_image.save_image: "docker save <name>" into <temp output>/<id>.tar
DockerSave ==
    /\ At("docker_save")
    /\ LET name == ResultImage(steps, Self)[1].name
           file == ImageFile(TempOutputDirectory(SelfId), SelfId)
       IN /\ last_cmd' = [cmd |-> "docker save", name |-> name, output |-> file]
          /\ \E ok \in BOOLEAN :
                IF ok /\ name \in DOMAIN images /\ SelfId \in DOMAIN temp_dirs
                THEN /\ temp_dirs' = [temp_dirs EXCEPT ![SelfId].tar =
                                         <<[name |-> name, holds |-> images[name]]>>]
                     /\ Goto("docker_finally")
                ELSE /\ Fail
                     /\ UNCHANGED temp_dirs
    /\ UNCHANGED <<Env, output_dirs, source_roots, Docker, next_used, Outcome, executions,
                   rerun>>

\* Mutant: the container is removed on the success path only (no finally clause).
DockerRemoveOnSuccessOnly ==
    /\ At("docker_finally")
    /\ last_cmd' = [cmd |-> "docker rm", name |-> container_name]
    /\ IF Top.exc
       THEN RaiseStepError /\ UNCHANGED container
       ELSE Goto("rename") /\ container' = <<>> /\ UNCHANGED Outcome
    /\ UNCHANGED <<Env, Dirs, images, next_used, executions, rerun>>

\* finally: "docker rm -f <container_name>"; then _run_in_docker returns, or the
\* exception reaches _run, which logs and raises DeploymentStepError.
DockerRemoveFinally ==
    /\ At("docker_finally")
    /\ last_cmd' = [cmd |-> "docker rm", name |-> container_name]
    /\ container' = <<>>
    /\ IF Top.exc THEN RaiseStepError ELSE Goto("rename") /\ UNCHANGED Outcome
    /\ UNCHANGED <<Env, Dirs, images, next_used, executions, rerun>>

\* ------------------------------------------------- BuildStep.run, the commit
\* The skip_cache_to_cicd file, then self._temp_output_directory.rename(output_directory).
\* rename fails on an existing, non-empty target directory.
\* Mutant: the temporary directory is not moved to the final path.
RenameTempOutputLost ==
    /\ At("rename")
    /\ stack' = Pop
    /\ UNCHANGED <<Env, Dirs, Docker, next_used, Outcome, last_cmd, executions, rerun>>

RenameTempOutput ==
    /\ At("rename")
    /\ LET content == [temp_dirs[SelfId] EXCEPT
                          !.skip_cache_to_cicd = IN_CICD /\ NO_CI_CD_CACHE]
       IN IF SelfId \notin DOMAIN temp_dirs
          THEN /\ Raise([type |-> "OSError", values |-> <<>>])
               /\ UNCHANGED <<temp_dirs, output_dirs, error_log>>
          ELSE IF SelfId \in DOMAIN output_dirs
          THEN /\ Raise([type |-> "OSError", values |-> <<>>])
               /\ temp_dirs' = [temp_dirs EXCEPT ![SelfId] = content]
               /\ UNCHANGED <<output_dirs, error_log>>
          ELSE /\ output_dirs' = (SelfId :> content) @@ output_dirs
               /\ temp_dirs' = [id \in DOMAIN temp_dirs \ {SelfId} |-> temp_dirs[id]]
               /\ stack' = Pop
               /\ UNCHANGED Outcome
    /\ UNCHANGED <<Env, source_roots, Docker, next_used, last_cmd, executions, rerun>>

\* ------------------------------------------------------------ environment
\* The process is killed while the step's container runs: no finally clause runs, the
\* container and the directories stay as they are.
Kill ==
    /\ At("docker_wait")
    /\ status' = "killed"
    /\ stack' = <<>>
    /\ UNCHANGED <<Env, Dirs, Docker, next_used, error, error_log, last_cmd, executions,
                   rerun>>

\* A fresh machine takes over the build root with some of its cache entries restored
\* (the CI cache of step outputs); its docker daemon has no step images or containers.
FreshMachine ==
    /\ status \in {"done", "failed", "killed"}
    /\ \E keep \in SUBSET DOMAIN output_dirs :
          output_dirs' = [id \in keep |-> output_dirs[id]]
    /\ temp_dirs' = <<>>
    /\ source_roots' = <<>>
    /\ images' = <<>>
    /\ container' = <<>>
    /\ status' = "idle"
    /\ next_used' = 1
    /\ error' = <<>>
    /\ error_log' = <<>>
    /\ last_cmd' = [cmd |-> "none"]
    /\ executions' = <<>>
    /\ rerun' = FALSE
    /\ UNCHANGED <<Env, stack>>

Next ==
    \/ StartRun
    \/ RunUsedStep
    \/ FinalRun
    \/ CacheHit
    \/ CacheMiss
    \/ RunDependencyStep
    \/ RunBaseStep
    \/ CreateTempOutput
    \/ PrepareWorkingSourceRoot
    \/ RunLocallyStart
    \/ RunLocallyExit
    \/ DockerRemoveStale
    \/ DockerRunStart
    \/ DockerRunExit
    \/ SkipImageOfDependencyStep
    \/ DockerCommit
    \/ DockerSave
    \/ DockerRemoveFinally
    \/ RenameTempOutput
    \/ Kill
    \/ FreshMachine

Spec == Init /\ [][Next]_vars

\* The engine over the step graphs with two base images.
InitImages ==
    /\ SOURCE_ROOT = ScriptTree
    /\ overall_info = NotInitialized
    /\ tracked_file_paths = NotInitialized
    /\ RegistryEmpty
    /\ previous = <<>>
    /\ steps \in ImageGraphs
    /\ used_steps \in UsedLists(steps)
    /\ IN_DOCKER \in BOOLEAN
    /\ IN_CICD = TRUE
    /\ output_dirs = <<>>
    /\ temp_dirs = <<>>
    /\ source_roots = <<>>
    /\ images = <<>>
    /\ container = <<>>
    /\ stack = <<>>
    /\ next_used = 1
    /\ status = "idle"
    /\ error = <<>>
    /\ error_log = <<>>
    /\ last_cmd = [cmd |-> "none"]
    /\ executions = <<>>
    /\ rerun = FALSE
    /\ peer = NoPeer

SpecImages == InitImages /\ [][Next]_vars

\* ------------------------------------------------------------ BuildStep.id
\* The identity of the steps of a graph over a source tree, evaluated by processes that
\* each construct the steps anew, between which the tree and the arguments of the first
\* step are edited. The engine does not run.
Engine == <<used_steps, IN_DOCKER, IN_CICD, output_dirs, temp_dirs, source_roots, images,
            container, stack, next_used, status, error, error_log, last_cmd, executions,
            rerun, peer>>

EngineIdle ==
    /\ used_steps = <<>>
    /\ IN_DOCKER = FALSE
    /\ IN_CICD = TRUE
    /\ output_dirs = <<>>
    /\ temp_dirs = <<>>
    /\ source_roots = <<>>
    /\ images = <<>>
    /\ container = <<>>
    /\ stack = <<>>
    /\ next_used = 1
    /\ status = "idle"
    /\ error = <<>>
    /\ error_log = <<>>
    /\ last_cmd = [cmd |-> "none"]
    /\ executions = <<>>
    /\ rerun = FALSE
    /\ peer = NoPeer

\* The first step has the script a, two more globs and two settings; the other steps
\* have the script steps/build.sh and stand alone, or have the step before them as their
\* base step or as their dependency step.
IdStepArgs(s) ==
    [name : {<<"S", "t", "e", "p">>},
     script_path : IF s = 1 THEN {<<"a">>} ELSE {<<"steps", "build.sh">>},
     is_dependency_step : {FALSE},
     base_step : IF s = 1 THEN BaseArgsOver(s, {UbuntuImage})
                 ELSE {b \in BaseArgsOver(s, {}) : b.step \in {0, s - 1}},
     dependency_steps : IF s = 1 THEN {<<>>} ELSE {<<>>, <<s - 1>>},
     additional_settings : IF s = 1 THEN {<<<<"k", "v">>, <<"w", "v">>>>} ELSE {<<>>},
     ci_cd_settings : {[cacheable |-> FALSE]},
     TRACKED_FILE_GLOBS : IF s = 1 THEN {<<<<"b">>, <<"steps", "*">>>>} ELSE {<<>>}]

IdGraphs ==
    {g \in [StepObjects -> UNION {IdStepArgs(s) : s \in StepObjects}] :
        \A s \in StepObjects :
            /\ g[s] \in IdStepArgs(s)
            /\ g[s].dependency_steps = <<>> \/ g[s].base_step.kind = "none"}

FileContents == {<<>>, <<"b">>}

IdTree ==
    [entries |-> (<<".dockerignore">> :> [kind |-> "file", bytes |-> <<>>])
                 @@ (<<"a">> :> [kind |-> "file", bytes |-> <<>>])
                 @@ (<<"b">> :> [kind |-> "file", bytes |-> <<"b">>])
                 @@ (<<"steps">> :> [kind |-> "dir", bytes |-> <<>>])
                 @@ (<<"steps", "build.sh">> :> [kind |-> "file", bytes |-> <<"a">>]),
     listing |-> <<<<"steps">>, <<"b">>, <<"steps", "build.sh">>, <<".dockerignore">>,
                   <<"a">>>>]

IdInit ==
    /\ SOURCE_ROOT = IdTree
    /\ overall_info = NotInitialized
    /\ tracked_file_paths = NotInitialized
    /\ RegistryEmpty
    /\ previous = <<>>
    /\ steps \in IdGraphs
    /\ EngineIdle

\* The steps a step is built on: its dependency steps and its base step.
UpstreamOf(g, s) == Range(g[s].dependency_steps) \cup ({BaseStepOf(g, s)} \ {0})

\* The steps whose _overall_info a first use of step.overall_info sets.
RECURSIVE Initialized(_, _)

Initialized(g, s) ==
    IF overall_info[s] # <<>> THEN {}
    ELSE {s} \cup UNION {Initialized(g, u) : u \in UpstreamOf(g, s)}

\* step.id is evaluated: the overall_info of the step, and of the steps it is built on,
\* is kept from now on.
EvaluateId(s) ==
    /\ overall_info[s] = <<>>
    /\ overall_info' = [u \in StepObjects |->
                           IF u \in Initialized(steps, s) THEN <<OverallInfo(steps, u)>>
                           ELSE overall_info[u]]
    /\ tracked_file_paths' = [u \in StepObjects |->
                                 IF u \in Initialized(steps, s)
                                 THEN <<TrackedFilePaths(steps, u)>>
                                 ELSE tracked_file_paths[u]]
    /\ previous' = <<>>
    /\ UNCHANGED <<steps, SOURCE_ROOT, Engine, Registry>>

Reversed(list) == [i \in DOMAIN list |-> list[Len(list) + 1 - i]]

WithBytes(tree, path, bytes) == [tree EXCEPT !.entries[path].bytes = bytes]

\* The file a is written while the process runs.
TouchFile ==
    /\ overall_info # NotInitialized
    /\ \E bytes \in FileContents \ {SOURCE_ROOT.entries[<<"a">>].bytes} :
          SOURCE_ROOT' = WithBytes(SOURCE_ROOT, <<"a">>, bytes)
    /\ UNCHANGED <<steps, overall_info, tracked_file_paths, previous, Engine, Registry>>

\* The process ends; the next one constructs the steps anew.
Exit ==
    /\ overall_info # NotInitialized
    /\ overall_info' = NotInitialized
    /\ tracked_file_paths' = NotInitialized
    /\ UNCHANGED <<steps, SOURCE_ROOT, previous, Engine, Registry>>

\* An edit is made between two processes, of which the next has evaluated nothing yet:
\* what the steps, the tree and the ids were before the edit is written down.
Edit ==
    /\ overall_info = NotInitialized
    /\ previous' = <<[steps |-> steps, SOURCE_ROOT |-> SOURCE_ROOT,
                      ids |-> [s \in StepObjects |-> Id(steps, s)]]>>
    /\ UNCHANGED <<overall_info, tracked_file_paths, Engine, Registry>>

\* The files a and b are edited.
EditFiles ==
    /\ Edit
    /\ \E bytes_a, bytes_b \in FileContents :
          /\ SOURCE_ROOT' = WithBytes(WithBytes(SOURCE_ROOT, <<"a">>, bytes_a),
                                      <<"b">>, bytes_b)
          /\ SOURCE_ROOT' # SOURCE_ROOT
    /\ UNCHANGED steps

\* The file system yields the paths in another order.
PermuteListing ==
    /\ Edit
    /\ SOURCE_ROOT' = [SOURCE_ROOT EXCEPT !.listing = Reversed(@)]
    /\ UNCHANGED steps

\* The value of the first setting of the first step is changed.
ChangeSetting ==
    /\ Edit
    /\ \E i \in DOMAIN steps[1].additional_settings :
          /\ steps[1].additional_settings[i][1] = "k"
          /\ steps' = [steps EXCEPT ![1].additional_settings[i][2] =
                                        IF @ = "v" THEN "w" ELSE "v"]
    /\ UNCHANGED SOURCE_ROOT

\* The settings of the first step are given in another order.
PermuteSettings ==
    /\ Edit
    /\ steps' = [steps EXCEPT ![1].additional_settings = Reversed(@)]
    /\ UNCHANGED SOURCE_ROOT

\* The globs of the first step are listed in another order.
PermuteGlobs ==
    /\ Edit
    /\ steps' = [steps EXCEPT ![1].TRACKED_FILE_GLOBS = Reversed(@)]
    /\ UNCHANGED SOURCE_ROOT

\* The first step is given another base image.
ChangeBaseImage ==
    /\ Edit
    /\ steps[1].base_step.kind = "image"
    /\ \E im \in {UbuntuImage, Arm64Image} \ {steps[1].base_step.image[1]} :
          steps' = [steps EXCEPT ![1].base_step.image = <<im>>]
    /\ UNCHANGED SOURCE_ROOT

IdNext ==
    \/ \E s \in StepObjects : EvaluateId(s)
    \/ TouchFile
    \/ Exit
    \/ EditFiles
    \/ PermuteListing
    \/ ChangeSetting
    \/ PermuteSettings
    \/ PermuteGlobs
    \/ ChangeBaseImage

IdSpec == IdInit /\ [][IdNext]_vars

\* ------------------------------------------------- BuildStep.tracked_file_paths
\* tracked_file_paths over globs, ignore files and trees drawn from small sets: the first
\* step has up to MaxGlobs globs and the script b, the other steps the script y alone.
MaxGlobs == 2

TrackGlobs ==
    {<<"a">>, <<"a", "*">>, <<"**", "*">>, <<"*">>, <<"y">>, <<".dockerignore">>,
     AbsPath(<<"a", "y">>)}

\* Texts of .dockerignore.
TrackIgnores ==
    {<<>>, <<"a">>, <<"/", "a">>, <<"y">>, <<"a", "/", "y">>, <<"a", "\n", "\n", "b">>,
     <<".dockerignore">>, <<"*">>}

TrackTree(ignore) ==
    [entries |-> (<<".dockerignore">> :> [kind |-> "file", bytes |-> ignore])
                 @@ (<<"a">> :> [kind |-> "dir", bytes |-> <<>>])
                 @@ (<<"a", "y">> :> [kind |-> "file", bytes |-> <<"a">>])
                 @@ (<<"b">> :> [kind |-> "file", bytes |-> <<"b">>])
                 @@ (<<"y">> :> [kind |-> "file", bytes |-> <<>>]),
     listing |-> <<<<"y">>, <<"a", "y">>, <<"b">>, <<".dockerignore">>, <<"a">>>>]

TrackStepArgs(s) ==
    [name : {<<"S", "t", "e", "p">>},
     script_path : IF s = 1 THEN {<<"b">>} ELSE {<<"y">>},
     is_dependency_step : {FALSE},
     base_step : BaseArgsOver(s, {}) \cap {[kind |-> "none", step |-> 0, image |-> <<>>]},
     dependency_steps : {<<>>},
     additional_settings : {<<>>},
     ci_cd_settings : {[cacheable |-> FALSE]},
     TRACKED_FILE_GLOBS : IF s = 1 THEN UNION {[1..n -> TrackGlobs] : n \in 0..MaxGlobs}
                          ELSE {<<>>}]

\* The graphs of the first n steps, constructed one step after the other.
RECURSIVE TrackGraphsOf(_)

TrackGraphsOf(n) ==
    IF n = 0 THEN {<<>>}
    ELSE {Append(g, args) : g \in TrackGraphsOf(n - 1), args \in TrackStepArgs(n)}

TrackGraphs == TrackGraphsOf(NumSteps)

TrackInit ==
    /\ SOURCE_ROOT \in {TrackTree(ignore) : ignore \in TrackIgnores}
    /\ overall_info = NotInitialized
    /\ tracked_file_paths = NotInitialized
    /\ RegistryEmpty
    /\ previous = <<>>
    /\ steps \in TrackGraphs
    /\ EngineIdle

\* step.tracked_file_paths is used for the first time.
TrackFiles(s) ==
    /\ tracked_file_paths[s] = <<>>
    /\ tracked_file_paths' = [tracked_file_paths EXCEPT ![s] = <<TrackedFilePaths(steps, s)>>]
    /\ UNCHANGED <<steps, SOURCE_ROOT, overall_info, previous, Engine, Registry>>

TrackNext == \E s \in StepObjects : TrackFiles(s)

TrackSpec == TrackInit /\ [][TrackNext]_vars

\* ------------------------------------------------------------ Deployment
\* Deployments are created and deployed; the engine does not run unless deploy starts it.
MaxDeployments == 3

DeploymentNames == {"x", "y"}

\* The step classes given to a deployment, each standing for the step it instantiates.
StepClassLists == {<<>>, <<1>>, <<2, 1>>}

DeployInit ==
    /\ SOURCE_ROOT = TrackTree(<<>>)
    /\ overall_info = NotInitialized
    /\ tracked_file_paths = NotInitialized
    /\ RegistryEmpty
    /\ previous = <<>>
    /\ steps \in {g \in TrackGraphs : g[1].TRACKED_FILE_GLOBS = <<>>}
    /\ EngineIdle

\* Mutant: the deployment is registered without the check for its name.
RegisterUnchecked(name, d) == (name :> d) @@ ALL_DEPLOYMENTS

\* Lines 871-874: ALL_DEPLOYMENTS after the deployment object d with this name got
\* there; the registry is left as it is when the name is in it.
Register(name, d) ==
    IF name \in DOMAIN ALL_DEPLOYMENTS THEN ALL_DEPLOYMENTS
    ELSE ALL_DEPLOYMENTS @@ (name :> d)

\* Deployment.__init__: the steps are instantiated, which may raise; then a name that is
\* in the registry raises ValueError, and any other name is registered.
CreateDeployment(name, step_classes, instantiated) ==
    /\ Len(deployments) < MaxDeployments
    /\ LET d == Len(deployments) + 1
           raised == IF ~instantiated THEN <<"Exception">>
                     ELSE IF name \in DOMAIN ALL_DEPLOYMENTS THEN <<"ValueError">>
                     ELSE <<>>
       IN /\ deployments' = Append(deployments,
                                   [name |-> name,
                                    steps |-> IF instantiated THEN step_classes ELSE <<>>,
                                    raised |-> raised])
          /\ ALL_DEPLOYMENTS' = IF instantiated THEN Register(name, d)
                                ELSE ALL_DEPLOYMENTS
    /\ UNCHANGED <<steps, SOURCE_ROOT, overall_info, tracked_file_paths, previous, Engine,
                   deployed, result_steps>>

\* get_deployment_by_name
GetDeploymentByName(name) == ALL_DEPLOYMENTS[name]

\* Deployment.deploy of the deployment registered under a name: step.run() is called
\* with no build_root, which run(self, build_root) answers with TypeError before its
\* body begins.
Deploy(name) ==
    /\ name \in DOMAIN ALL_DEPLOYMENTS
    /\ LET d == GetDeploymentByName(name)
       IN deployed' = <<[deployment |-> d,
                         raised |-> IF deployments[d].steps = <<>> THEN <<>>
                                    ELSE <<"TypeError">>]>>
    /\ deployed' # deployed
    /\ UNCHANGED <<steps, SOURCE_ROOT, overall_info, tracked_file_paths, previous, Engine,
                   ALL_DEPLOYMENTS, deployments, result_steps>>

DeployNext ==
    \/ \E name \in DeploymentNames, step_classes \in StepClassLists,
          instantiated \in BOOLEAN :
          CreateDeployment(name, step_classes, instantiated)
    \/ \E name \in DeploymentNames : Deploy(name)

DeploySpec == DeployInit /\ [][DeployNext]_vars

\* ------------------------------------------------ all_used_cacheable_steps
\* The cacheable steps of step graphs in which every step is marked cacheable or not,
\* stands on any step constructed before it and has any of them as dependency steps.
StepNames == <<"a", "b", "k", "v">>

CacheStepArgs(s) ==
    [name : {<<"S", "t", "e", "p", StepNames[s]>>},
     script_path : {<<"y">>},
     is_dependency_step : {FALSE},
     base_step : BaseArgsOver(s, {}),
     dependency_steps : DepLists(s),
     additional_settings : {<<>>},
     ci_cd_settings : [cacheable : BOOLEAN],
     TRACKED_FILE_GLOBS : {<<>>}]

RECURSIVE CacheGraphsOf(_)

CacheGraphsOf(n) ==
    IF n = 0 THEN {<<>>}
    ELSE {Append(g, args) : g \in CacheGraphsOf(n - 1), args \in CacheStepArgs(n)}

CacheGraphs == CacheGraphsOf(NumSteps)

CacheInit ==
    /\ SOURCE_ROOT = TrackTree(<<>>)
    /\ overall_info = NotInitialized
    /\ tracked_file_paths = NotInitialized
    /\ RegistryEmpty
    /\ previous = <<>>
    /\ steps \in CacheGraphs
    /\ used_steps \in UsedLists(steps)
    /\ IN_DOCKER = FALSE
    /\ IN_CICD = TRUE
    /\ output_dirs = <<>>
    /\ temp_dirs = <<>>
    /\ source_roots = <<>>
    /\ images = <<>>
    /\ container = <<>>
    /\ stack = <<>>
    /\ next_used = 1
    /\ status = "idle"
    /\ error = <<>>
    /\ error_log = <<>>
    /\ last_cmd = [cmd |-> "none"]
    /\ executions = <<>>
    /\ rerun = FALSE
    /\ peer = NoPeer

\* result_steps.extend(...) for every list of a sequence of lists, in order.
RECURSIVE Extend(_)

Extend(lists) == IF lists = <<>> THEN <<>> ELSE Head(lists) \o Extend(Tail(lists))

RECURSIVE AllUsedCacheableSteps(_, _)

\* Mutant: the step is added whether it is cacheable or not.
AllUsedStepsUnmarked(g, s) ==
    Extend([i \in DOMAIN g[s].dependency_steps |->
               AllUsedCacheableSteps(g, g[s].dependency_steps[i])])
        \o (IF BaseStepOf(g, s) # 0 THEN AllUsedCacheableSteps(g, BaseStepOf(g, s))
            ELSE <<>>)
        \o <<s>>

\* BuildStep.all_used_cacheable_steps
AllUsedCacheableSteps(g, s) ==
    Extend([i \in DOMAIN g[s].dependency_steps |->
               AllUsedCacheableSteps(g, g[s].dependency_steps[i])])
        \o (IF BaseStepOf(g, s) # 0 THEN AllUsedCacheableSteps(g, BaseStepOf(g, s))
            ELSE <<>>)
        \o (IF g[s].ci_cd_settings.cacheable THEN <<s>> ELSE <<>>)

\* FinalStep.all_used_cacheable_steps
FinalAllUsedCacheableSteps(g, used) ==
    Extend([i \in DOMAIN used |-> AllUsedCacheableSteps(g, used[i])])

\* all_used_cached_step_ids and all_used_cacheable_steps_ids
StepIds(g, list) == [i \in DOMAIN list |-> Id(g, list[i])]

\* step.all_used_cacheable_steps and step.all_used_cached_step_ids are read.
QueryStep(s) ==
    /\ LET list == AllUsedCacheableSteps(steps, s)
       IN result_steps' = <<[of |-> s, steps |-> list, ids |-> StepIds(steps, list)]>>
    /\ result_steps' # result_steps
    /\ UNCHANGED <<steps, SOURCE_ROOT, overall_info, tracked_file_paths, previous, Engine,
                   ALL_DEPLOYMENTS, deployments, deployed>>

\* The same of the final step, which is written as step 0.
QueryFinalStep ==
    /\ LET list == FinalAllUsedCacheableSteps(steps, used_steps)
       IN result_steps' = <<[of |-> 0, steps |-> list, ids |-> StepIds(steps, list)]>>
    /\ result_steps' # result_steps
    /\ UNCHANGED <<steps, SOURCE_ROOT, overall_info, tracked_file_paths, previous, Engine,
                   ALL_DEPLOYMENTS, deployments, deployed>>

CacheNext ==
    \/ \E s \in StepObjects : QueryStep(s)
    \/ QueryFinalStep

CacheSpec == CacheInit /\ [][CacheNext]_vars

\* ================================================================ claims


\* ------------------------------------------------ a rerun after a failed run
\* Steps executed on the current machine, each of a name of its own.
RerunStepArgs(s) ==
    [name : {<<"S", "t", "e", "p", StepNames[s]>>},
     script_path : {<<"steps", "build.sh">>},
     is_dependency_step : {FALSE},
     base_step : BaseArgsOver(s, {}),
     dependency_steps : DepLists(s),
     additional_settings : {<<>>},
     ci_cd_settings : {[cacheable |-> FALSE]},
     TRACKED_FILE_GLOBS : {<<>>}]

RECURSIVE RerunGraphsOf(_)

RerunGraphsOf(n) ==
    IF n = 0 THEN {<<>>}
    ELSE {Append(g, args) : g \in RerunGraphsOf(n - 1), args \in RerunStepArgs(n)}

RerunGraphs == RerunGraphsOf(NumSteps)

RerunInit ==
    /\ SOURCE_ROOT = ScriptTree
    /\ overall_info = NotInitialized
    /\ tracked_file_paths = NotInitialized
    /\ RegistryEmpty
    /\ previous = <<>>
    /\ steps \in RerunGraphs
    /\ used_steps \in UsedLists(steps)
    /\ IN_DOCKER = FALSE
    /\ IN_CICD = TRUE
    /\ output_dirs = <<>>
    /\ temp_dirs = <<>>
    /\ source_roots = <<>>
    /\ images = <<>>
    /\ container = <<>>
    /\ stack = <<>>
    /\ next_used = 1
    /\ status = "idle"
    /\ error = <<>>
    /\ error_log = <<>>
    /\ last_cmd = [cmd |-> "none"]
    /\ executions = <<>>
    /\ rerun = FALSE
    /\ peer = NoPeer

\* The runs of the first process, up to a failed one.
FirstRun == previous = <<>> /\ StartRun

\* After a failed run a new process constructs the steps again, the step `changed` (if
\* any) with another additional_settings argument, and calls run against the same build
\* root. What the failed run left is kept for comparison.
Restart(changed) ==
    /\ status = "failed"
    /\ previous = <<>>
    /\ previous' = <<[steps |-> steps, SOURCE_ROOT |-> SOURCE_ROOT,
                      ids |-> [s \in StepObjects |-> Id(steps, s)],
                      info |-> [s \in StepObjects |-> OverallInfoStr(steps, s)],
                      committed |-> DOMAIN output_dirs]>>
    /\ steps' = [s \in StepObjects |->
                    IF s = changed
                    THEN [steps[s] EXCEPT !.additional_settings = <<<<"k", <<"v">>>>>>]
                    ELSE steps[s]]
    /\ status' = "running"
    /\ rerun' = FALSE
    /\ next_used' = 1
    /\ stack' = <<>>
    /\ error' = <<>>
    /\ error_log' = <<>>
    /\ executions' = <<>>
    /\ last_cmd' = [cmd |-> "none"]
    /\ UNCHANGED <<used_steps, IN_DOCKER, IN_CICD, SOURCE_ROOT, overall_info,
                   tracked_file_paths,
                   Registry, Dirs, Docker, peer>>

RerunNext ==
    \/ FirstRun
    \/ \E changed \in 0..NumSteps : Restart(changed)
    \/ RunUsedStep
    \/ FinalRun
    \/ CacheHit
    \/ CacheMiss
    \/ RunDependencyStep
    \/ RunBaseStep
    \/ CreateTempOutput
    \/ PrepareWorkingSourceRoot
    \/ RunLocallyStart
    \/ RunLocallyExit
    \/ RenameTempOutput

RerunSpec == RerunInit /\ [][RerunNext]_vars


\* ------------------------------------------------ the commands of the steps
\* The additional_settings arguments: the items in the order of the dictionary, a value
\* being <<>> for None and <<string>> otherwise.
CmdSettings ==
    {<<>>,
     <<<<"k", <<"v">>>>>>,
     <<<<"k", <<>>>>>>,
     <<<<"w", <<"v">>>>, <<"k", <<>>>>>>}

\* Steps of names of their own; the last one has settings, dependency steps and a base.
CmdStepArgs(s) ==
    [name : {<<"S", "t", "e", "p", StepNames[s]>>},
     script_path : {<<"steps", "build.sh">>},
     is_dependency_step : IF s = 1 THEN BOOLEAN ELSE {FALSE},
     base_step : {b \in BaseArgsOver(s, {UbuntuImage}) :
                     b.step = 0 \/ (s = NumSteps /\ b.step = 1)},
     dependency_steps : IF s = NumSteps THEN {q \in DepLists(s) : q # <<>> => q[Len(q)] = 1}
                        ELSE {<<>>},
     additional_settings : IF s = NumSteps THEN CmdSettings ELSE {<<>>},
     ci_cd_settings : {[cacheable |-> FALSE]},
     TRACKED_FILE_GLOBS : {<<>>}]

RECURSIVE CmdGraphsOf(_)

CmdGraphsOf(n) ==
    IF n = 0 THEN {<<>>}
    ELSE {Append(g, args) : g \in CmdGraphsOf(n - 1),
                            args \in {a \in CmdStepArgs(n) :
                                         a.is_dependency_step => a.base_step.kind = "image"}}

CmdGraphs == CmdGraphsOf(NumSteps)

CmdInit ==
    /\ SOURCE_ROOT = ScriptTree
    /\ overall_info = NotInitialized
    /\ tracked_file_paths = NotInitialized
    /\ RegistryEmpty
    /\ previous = <<>>
    /\ steps \in CmdGraphs
    /\ used_steps \in UsedLists(steps)
    /\ IN_DOCKER \in BOOLEAN
    /\ IN_CICD \in BOOLEAN
    /\ output_dirs = <<>>
    /\ temp_dirs = <<>>
    /\ source_roots = <<>>
    /\ images = <<>>
    /\ container = <<>>
    /\ stack = <<>>
    /\ next_used = 1
    /\ status = "idle"
    /\ error = <<>>
    /\ error_log = <<>>
    /\ last_cmd = [cmd |-> "none"]
    /\ executions = <<>>
    /\ rerun = FALSE
    /\ peer = NoPeer

CmdSpec == CmdInit /\ [][Next]_vars


\* ------------------------------------------------ runs that are left to end
\* The steps FinalStep.run and the calls of run below it take: the process is not
\* killed, every command it waits for exits, and it goes on from one statement to the
\* next.
\* _check_for_cached_result begins with self.output_directory, which evaluates self.id:
\* the first evaluation on a step object sets its _overall_info and that of the steps it
\* is built on.
EvaluateSelfId == At("check") /\ EvaluateId(Self)

\* The rest of _check_for_cached_result and what run does with its answer.
CheckedCacheHit == At("check") /\ overall_info[Self] # <<>> /\ CacheHit

CheckedCacheMiss == At("check") /\ overall_info[Self] # <<>> /\ CacheMiss

RunSteps ==
    \/ RunUsedStep
    \/ FinalRun
    \/ EvaluateSelfId
    \/ CheckedCacheHit
    \/ CheckedCacheMiss
    \/ RunDependencyStep
    \/ RunBaseStep
    \/ CreateTempOutput
    \/ PrepareWorkingSourceRoot
    \/ RunLocallyStart
    \/ RunLocallyExit
    \/ DockerRemoveStale
    \/ DockerRunStart
    \/ DockerRunExit
    \/ SkipImageOfDependencyStep
    \/ DockerCommit
    \/ DockerSave
    \/ DockerRemoveFinally
    \/ RenameTempOutput

LiveNext == StartRun \/ RunSteps

\* The step graphs of the commands above, without settings.
LiveInit ==
    /\ SOURCE_ROOT = ScriptTree
    /\ overall_info = NotInitialized
    /\ tracked_file_paths = NotInitialized
    /\ RegistryEmpty
    /\ previous = <<>>
    /\ steps \in {g \in CmdGraphs : g[NumSteps].additional_settings = <<>>}
    /\ used_steps \in UsedLists(steps)
    /\ IN_DOCKER \in BOOLEAN
    /\ IN_CICD = TRUE
    /\ output_dirs = <<>>
    /\ temp_dirs = <<>>
    /\ source_roots = <<>>
    /\ images = <<>>
    /\ container = <<>>
    /\ stack = <<>>
    /\ next_used = 1
    /\ status = "idle"
    /\ error = <<>>
    /\ error_log = <<>>
    /\ last_cmd = [cmd |-> "none"]
    /\ executions = <<>>
    /\ rerun = FALSE
    /\ peer = NoPeer

\* Weak fairness of the steps of a run: a process that is not killed goes on, and the
\* commands it waits for exit.
LiveSpec == LiveInit /\ [][LiveNext]_vars /\ WF_vars(RunSteps)

\* ------------------------------------------------ runs over a tree that is edited
\* The script of the steps is written while the build process lives: by an editor, a
\* checkout, or a command of a step.
ModifySource ==
    /\ \E bytes \in {<<"a">>, <<"b">>} \ {SOURCE_ROOT.entries[<<"steps", "build.sh">>].bytes} :
          SOURCE_ROOT' = WithBytes(SOURCE_ROOT, <<"steps", "build.sh">>, bytes)
    /\ UNCHANGED <<steps, overall_info, tracked_file_paths, previous, Engine, Registry>>

\* The step graphs of the commands above, without settings and without a base step that
\* runs in docker (the constructor of a step evaluates the id of such a base step).
EditInit ==
    /\ SOURCE_ROOT = ScriptTree
    /\ overall_info = NotInitialized
    /\ tracked_file_paths = NotInitialized
    /\ RegistryEmpty
    /\ previous = <<>>
    /\ steps \in {g \in CmdGraphs :
                     /\ g[NumSteps].additional_settings = <<>>
                     /\ \A s \in StepObjects :
                           BaseStepOf(g, s) # 0 => ~RunsInDocker(g, BaseStepOf(g, s))}
    /\ used_steps \in UsedLists(steps)
    /\ IN_DOCKER = FALSE
    /\ IN_CICD = TRUE
    /\ output_dirs = <<>>
    /\ temp_dirs = <<>>
    /\ source_roots = <<>>
    /\ images = <<>>
    /\ container = <<>>
    /\ stack = <<>>
    /\ next_used = 1
    /\ status = "idle"
    /\ error = <<>>
    /\ error_log = <<>>
    /\ last_cmd = [cmd |-> "none"]
    /\ executions = <<>>
    /\ rerun = FALSE
    /\ peer = NoPeer

EditNext == StartRun \/ RunSteps \/ ModifySource

EditSpec == EditInit /\ [][EditNext]_vars

\* ------------------------------------------------ step graphs with cycles
\* The dependency_steps list a step keeps is the list object its constructor was given
\* (self._dependency_steps = dependency_steps or []): a caller that appends to the list
\* afterwards makes a step depend on a step constructed after it, or on itself. The
\* steps are local, each with a name of its own; run is called on any one of them.
\* The depth of the Python call stack at which RecursionError is raised.
RecursionLimit == 6

CycleStepArgs(s) ==
    [name : {<<"S", "t", "e", "p", StepNames[s]>>},
     script_path : {<<"steps", "build.sh">>},
     is_dependency_step : {FALSE},
     base_step : BaseArgsOver(s, {}),
     dependency_steps : {q \in UNION {[1..n -> StepObjects] : n \in 0..MaxDeps} :
                            IsInjective(q)},
     additional_settings : {<<>>},
     ci_cd_settings : {[cacheable |-> FALSE]},
     TRACKED_FILE_GLOBS : {<<>>}]

RECURSIVE CycleGraphsOf(_)

CycleGraphsOf(n) ==
    IF n = 0 THEN {<<>>}
    ELSE {Append(g, args) : g \in CycleGraphsOf(n - 1), args \in CycleStepArgs(n)}

CycleInit ==
    /\ SOURCE_ROOT = ScriptTree
    /\ overall_info = NotInitialized
    /\ tracked_file_paths = NotInitialized
    /\ RegistryEmpty
    /\ previous = <<>>
    /\ steps \in CycleGraphsOf(NumSteps)
    /\ used_steps \in {<<s>> : s \in StepObjects}
    /\ IN_DOCKER = FALSE
    /\ IN_CICD = TRUE
    /\ output_dirs = <<>>
    /\ temp_dirs = <<>>
    /\ source_roots = <<>>
    /\ images = <<>>
    /\ container = <<>>
    /\ stack = <<>>
    /\ next_used = 1
    /\ status = "idle"
    /\ error = <<>>
    /\ error_log = <<>>
    /\ last_cmd = [cmd |-> "none"]
    /\ executions = <<>>
    /\ rerun = FALSE
    /\ peer = NoPeer

\* The steps whose overall_info _init_overall_info reads, in the order it reads them:
\* the dependency steps, then the base step.
UpstreamList(g, s) ==
    g[s].dependency_steps \o (IF BaseStepOf(g, s) # 0 THEN <<BaseStepOf(g, s)>> ELSE <<>>)

\* A call of the property overall_info on a step whose _overall_info is None.
InfoFrame(s) == [NewFrame(s) EXCEPT !.pc = "info"]

\* self.id in _check_for_cached_result: overall_info finds self._overall_info None and
\* calls _init_overall_info.
OverallInfoCall ==
    /\ At("check")
    /\ overall_info[Self] = <<>>
    /\ stack' = Append(stack, InfoFrame(Self))
    /\ UNCHANGED <<Env, Dirs, Docker, next_used, Outcome, last_cmd, executions, rerun>>

\* _init_overall_info reads the overall_info of the next step the step is built on: the
\* dictionary that step holds, or a call of its own; nothing looks whether that step is
\* being evaluated already, and the interpreter ends a recursion that is too deep.
OverallInfoOfUpstream ==
    /\ At("info")
    /\ Top.i <= Len(UpstreamList(steps, Self))
    /\ LET u == UpstreamList(steps, Self)[Top.i]
       IN IF overall_info[u] # <<>>
          THEN /\ stack' = SetTop([Top EXCEPT !.i = Top.i + 1])
               /\ UNCHANGED Outcome
          ELSE IF Len(stack) >= RecursionLimit
          THEN /\ Raise([type |-> "RecursionError", values |-> <<>>])
               /\ UNCHANGED error_log
          ELSE /\ stack' = Append(SetTop([Top EXCEPT !.i = Top.i + 1]), InfoFrame(u))
               /\ UNCHANGED Outcome
    /\ UNCHANGED <<Env, Dirs, Docker, next_used, last_cmd, executions, rerun>>

\* The dictionary is complete: self._overall_info is set and returned.
OverallInfoReturn ==
    /\ At("info")
    /\ Top.i > Len(UpstreamList(steps, Self))
    /\ overall_info' = [overall_info EXCEPT ![Self] = <<InitOverallInfo(steps, Self)>>]
    /\ tracked_file_paths' =
           [tracked_file_paths EXCEPT ![Self] = <<TrackedFilePaths(steps, Self)>>]
    /\ stack' = Pop
    /\ UNCHANGED <<steps, used_steps, IN_DOCKER, IN_CICD, SOURCE_ROOT, Registry, previous,
                   Dirs, Docker, next_used, Outcome, last_cmd, executions, rerun, peer>>

CycleNext ==
    \/ StartRun
    \/ RunUsedStep
    \/ FinalRun
    \/ OverallInfoCall
    \/ OverallInfoOfUpstream
    \/ OverallInfoReturn
    \/ CheckedCacheHit
    \/ CheckedCacheMiss
    \/ RunDependencyStep
    \/ RunBaseStep
    \/ CreateTempOutput
    \/ PrepareWorkingSourceRoot
    \/ RunLocallyStart
    \/ RunLocallyExit
    \/ RenameTempOutput

CycleSpec == CycleInit /\ [][CycleNext]_vars

\* --------------------------------------- two build processes on one machine
\* Two processes construct the same steps and run over the same build root and the same
\* docker daemon. Each has its own step objects, call stack and outcome; the directories
\* below the build root, the images and the container named container_name are shared.
\* The steps of the two are interleaved by the scheduler: Switch takes the processor from
\* the one and gives it to the other.
Switch ==
    /\ peer' = [pid |-> Pid, used_steps |-> used_steps, overall_info |-> overall_info,
                tracked_file_paths |-> tracked_file_paths, stack |-> stack,
                next_used |-> next_used, status |-> status, error |-> error,
                error_log |-> error_log, last_cmd |-> last_cmd,
                executions |-> executions, rerun |-> rerun]
    /\ used_steps' = peer.used_steps
    /\ overall_info' = peer.overall_info
    /\ tracked_file_paths' = peer.tracked_file_paths
    /\ stack' = peer.stack
    /\ next_used' = peer.next_used
    /\ status' = peer.status
    /\ error' = peer.error
    /\ error_log' = peer.error_log
    /\ last_cmd' = peer.last_cmd
    /\ executions' = peer.executions
    /\ rerun' = peer.rerun
    /\ UNCHANGED <<steps, IN_DOCKER, IN_CICD, SOURCE_ROOT, Registry, previous, Dirs, Docker>>

\* Each process is asked for one step, once: the one for the last step of the graph, the
\* other for any step. The processes run on the host.
ConcStart == status = "idle" /\ StartRun

\* The step graphs of the commands above, without settings and with at most one
\* dependency step.
ConcInit ==
    /\ SOURCE_ROOT = ScriptTree
    /\ overall_info = NotInitialized
    /\ tracked_file_paths = NotInitialized
    /\ RegistryEmpty
    /\ previous = <<>>
    /\ steps \in {g \in CmdGraphs :
                     /\ g[NumSteps].additional_settings = <<>>
                     /\ Len(g[NumSteps].dependency_steps) <= 1}
    /\ used_steps = <<NumSteps>>
    /\ IN_DOCKER = FALSE
    /\ IN_CICD = TRUE
    /\ output_dirs = <<>>
    /\ temp_dirs = <<>>
    /\ source_roots = <<>>
    /\ images = <<>>
    /\ container = <<>>
    /\ stack = <<>>
    /\ next_used = 1
    /\ status = "idle"
    /\ error = <<>>
    /\ error_log = <<>>
    /\ last_cmd = [cmd |-> "none"]
    /\ executions = <<>>
    /\ rerun = FALSE
    /\ peer \in {[NoPeer EXCEPT !.used_steps = <<s>>] : s \in StepObjects}

ConcNext == ConcStart \/ RunSteps \/ Switch

ConcSpec == ConcInit /\ [][ConcNext]_vars

\* The positions of run between the creation of the temporary directory and the rename.
ExecutingPcs ==
    {"source", "local", "local_wait", "docker_rm", "docker_run", "docker_wait",
     "docker_commit", "docker_save", "docker_finally", "rename"}

\* The step is executed by _run_in_docker.
DockerExec(s) == RunsInDocker(steps, s) /\ ~IN_DOCKER

StepFailed == status = "failed" /\ error # <<>> /\ error[1].type = "DeploymentStepError"

\* The steps a step is built on, directly or through other steps.
RECURSIVE Closure(_, _)

Closure(g, s) == UpstreamOf(g, s) \cup UNION {Closure(g, u) : u \in UpstreamOf(g, s)}

\* The tracked files of a step with their bytes, now and before the last edit.
WithBytesOf(tree, paths) ==
    [i \in DOMAIN paths |-> <<paths[i], tree.entries[paths[i]].bytes>>]

TrackedBytesOf(tree, g, s) ==
    WithBytesOf(tree, TrackedFilePathsOf(tree, TrackedFileGlobs(g, s)))

TrackedBytes(s) == TrackedBytesOf(SOURCE_ROOT, steps, s)

TrackedBytesBefore(s) == TrackedBytesOf(previous[1].SOURCE_ROOT, previous[1].steps, s)

Paths(tracked) == [i \in DOMAIN tracked |-> tracked[i][1]]

\* C1: the final directory step_outputs/<id> comes into being by the rename alone, and
\* the rename happens only after the step's command has exited with 0 and, for a step
\* executed in a container that is no dependency step, after the image was committed
\* and saved; while a step is being executed, and after its execution has failed, its
\* final directory does not exist (at most the temporary one does).
C1_CommitStep(id) ==
    /\ At("rename")
    /\ SelfId = id
    /\ temp_dirs[id].output = "complete"
    /\ (DockerExec(Self) /\ ~steps[Self].is_dependency_step) =>
          (temp_dirs[id].tar # <<>> /\ id \in DOMAIN images)

C1_Absent ==
    /\ \A n \in DOMAIN stack :
          stack[n].pc \in ExecutingPcs => Id(steps, stack[n].step) \notin DOMAIN output_dirs
    /\ StepFailed => error[1].values[1] \notin DOMAIN output_dirs
    /\ \A id \in DOMAIN output_dirs : output_dirs[id].output = "complete"

C1_FinalOnlyByRename ==
    /\ []C1_Absent
    /\ [][\A id \in (DOMAIN output_dirs') \ DOMAIN output_dirs : C1_CommitStep(id)]_vars

\* C1 witness: a command has failed partway, leaving the temporary directory only.
C1_Witness ==
    /\ StepFailed
    /\ error[1].values[1] \in DOMAIN temp_dirs
    /\ temp_dirs[error[1].values[1]].output = "partial"
    /\ error[1].values[1] \notin DOMAIN output_dirs

\* C2: within one run no step id has its command started twice, and a step whose id
\* was executed earlier in the run is found cached when run arrives at it again.
C2_AtMostOnce ==
    /\ \A i, j \in DOMAIN executions : executions[i] = executions[j] => i = j
    /\ (At("check") /\ SelfId \in Range(executions)) => SelfId \in DOMAIN output_dirs

\* C2 witness: run arrives at an id that was executed earlier in the same run.
C2_Witness == At("check") /\ SelfId \in Range(executions)

Committed(s) == Id(steps, s) \in DOMAIN output_dirs

UpstreamCommitted(s) ==
    /\ \A j \in DOMAIN steps[s].dependency_steps : Committed(steps[s].dependency_steps[j])
    /\ BaseStepOf(steps, s) # 0 => Committed(BaseStepOf(steps, s))

C5_Frame(n) ==
    LET f == stack[n]
        deps == steps[f.step].dependency_steps
        calling == n < Len(stack)
    IN /\ f.pc = "check" => ~calling
       /\ f.pc = "deps" =>
             /\ f.i <= Len(deps) + 1
             /\ \A j \in 1..(f.i - 1) : (calling /\ j = f.i - 1) \/ Committed(deps[j])
             /\ calling => (f.i > 1 /\ stack[n + 1].step = deps[f.i - 1])
       /\ f.pc = "output" =>
             /\ \A j \in DOMAIN deps : Committed(deps[j])
             /\ IF calling THEN stack[n + 1].step = BaseStepOf(steps, f.step)
                ELSE Committed(BaseStepOf(steps, f.step))
       /\ f.pc \in ExecutingPcs => (~calling /\ UpstreamCommitted(f.step))

C5_UpstreamFirst ==
    /\ [](\A n \in DOMAIN stack : C5_Frame(n))
    /\ [][(status = "running" /\ stack # <<>> /\
           (temp_dirs' # temp_dirs \/ executions' # executions)) =>
             UpstreamCommitted(Self)]_vars

\* C5 witness: the command of a step with two dependency steps, listed against the
\* order of their construction, and a base step is running.
C5_Witness ==
    /\ At("local_wait")
    /\ Len(steps[Self].dependency_steps) = 2
    /\ steps[Self].dependency_steps[1] > steps[Self].dependency_steps[2]
    /\ BaseStepOf(steps, Self) # 0

\* The step of the innermost frame fails in _run.
C6_Failing ==
    /\ status = "running"
    /\ stack # <<>>
    /\ Top.pc \in {"local_wait", "docker_finally"}
    /\ status' = "failed"

C7_LoadsSavedImage ==
    [][(At("check") /\ SelfId \in DOMAIN output_dirs /\ NeedsImage(Self)
          /\ output_dirs[SelfId].tar # <<>>) =>
          IF SelfId \in DOMAIN images
          THEN images' = images /\ last_cmd'.cmd # "docker load"
          ELSE /\ last_cmd' = [cmd |-> "docker load",
                               input |-> ImageFile(OutputDirectory(SelfId), SelfId)]
               /\ SelfId \in DOMAIN images']_vars

\* C8: a cache entry committed by the containerized execution of a step that is no
\* dependency step holds <id>.tar with the image committed from that step's container;
\* commit and save come after the command's success and before the rename, a failure
\* of either leads to no rename, and a committed entry is not changed afterwards.
C8_Order ==
    /\ (At("docker_commit") \/ At("docker_save")) =>
          /\ temp_dirs[SelfId].output = "complete"
          /\ container # <<>>
          /\ ~container[1].running
          /\ container[1].step = SelfId
    /\ At("docker_save") => (SelfId \in DOMAIN images /\ images[SelfId] = SelfId)
    /\ At("rename") => ~Top.exc

C9_ContainerRemoved ==
    /\ At("docker_run") => container = <<>>
    /\ (At("rename") /\ DockerExec(Self)) => container = <<>>
    /\ (StepFailed /\ \E s \in StepObjects :
                         Carries(error[1], Id(steps, s)) /\ DockerExec(s)) =>
          container = <<>>

\* C9 witness: a containerized execution whose command was started has failed.
C9_Witness ==
    /\ StepFailed
    /\ executions # <<>>
    /\ last_cmd.cmd = "docker rm"
    /\ container = <<>>

\* C10: every image the engine commits is named by the lowercase id of the step whose
\* container it was committed from, the name of that step's cache directory; a saved
\* image lies in the cache directory of its own name.
IsLower(str) == \A i \in 1..(Len(str) - 1) : LowerChar(str[i]) = str[i]

C10_ImageNamedById ==
    /\ \A name \in DOMAIN images :
          /\ images[name] = name
          /\ IsLower(name)
          /\ name \in AllIds(steps)
    /\ \A id \in DOMAIN output_dirs \cup DOMAIN temp_dirs :
          LET dir == IF id \in DOMAIN output_dirs THEN output_dirs[id] ELSE temp_dirs[id]
          IN dir.tar # <<>> => dir.tar[1].name = id
    /\ (status = "running" /\ last_cmd.cmd = "docker commit") =>
          (last_cmd.name = SelfId /\ last_cmd.name \in DOMAIN temp_dirs)

\* C10 witness: a result image has been committed and saved.
C10_Witness ==
    \E name \in DOMAIN images : name \in DOMAIN temp_dirs /\ temp_dirs[name].tar # <<>>

\* C11: the image a containerized step's container is created from is the step's own
\* explicit base image when it has one, and otherwise the result image of its base step,
\* named with the base step's id and of the architecture found along the base-step
\* chain; the platform given to "docker run" is the architecture of that image.
RECURSIVE C11_EffectiveBaseImage(_, _)

C11_EffectiveBaseImage(g, s) ==
    IF g[s].base_step.kind = "image"
    THEN g[s].base_step.image[1]
    ELSE [name |-> Id(g, g[s].base_step.step),
          architecture |-> C11_EffectiveBaseImage(g, g[s].base_step.step).architecture]

C11_ContainerFromEffectiveBase ==
    /\ (status = "running" /\ last_cmd.cmd = "docker run") =>
          /\ last_cmd.image = C11_EffectiveBaseImage(steps, Self).name
          /\ last_cmd.platform = C11_EffectiveBaseImage(steps, Self).architecture
    /\ (status = "running" /\ stack # <<>>
          /\ Top.pc \in {"docker_wait", "docker_commit", "docker_save"}) =>
          /\ container # <<>>
          /\ container[1].image = C11_EffectiveBaseImage(steps, Self).name

\* C11 witness: a container runs that was created from the result image of the base step
\* of its step, two steps above an arm64 base image.
C11_Witness ==
    /\ At("docker_wait")
    /\ BaseStepOf(steps, Self) # 0
    /\ BaseStepOf(steps, BaseStepOf(steps, Self)) # 0
    /\ container[1].image = Id(steps, BaseStepOf(steps, Self))
    /\ last_cmd.platform = "arm64"

\* C12: two constructions of a step that agree in the name, the tracked file paths, the
\* bytes of the tracked files, the settings, the base image descriptor and the ids of
\* the steps it is built on give the same id; and every evaluation of step.id on one
\* step object gives the value of the first, which its _overall_info holds.
C12_SameInputs(s) ==
    /\ steps[s].name = previous[1].steps[s].name
    /\ TrackedBytes(s) = TrackedBytesBefore(s)
    /\ Range(steps[s].additional_settings) = Range(previous[1].steps[s].additional_settings)
    /\ steps[s].base_step = previous[1].steps[s].base_step
    /\ steps[s].dependency_steps = previous[1].steps[s].dependency_steps
    /\ \A u \in UpstreamOf(steps, s) : Id(steps, u) = previous[1].ids[u]

C12_Deterministic ==
    /\ previous # <<>> =>
          \A s \in StepObjects : C12_SameInputs(s) => Id(steps, s) = previous[1].ids[s]
    /\ \A s \in StepObjects :
          overall_info[s] # <<>> =>
              Id(steps, s) = StepIdOf(steps[s].name, JsonDumps(overall_info[s][1]))

\* C12 witness: after an edit of the tree, a step that stands on another step has the
\* inputs it had before, tracked files among them.
C12_Witness ==
    /\ previous # <<>>
    /\ SOURCE_ROOT # previous[1].SOURCE_ROOT
    /\ \E s \in StepObjects :
          /\ C12_SameInputs(s)
          /\ UpstreamOf(steps, s) # {}
          /\ Len(TrackedBytes(s)) > 1

\* C12, repeated evaluation: the ids of the first step and of a step built on it were
\* evaluated, and a file the first step tracks was written afterwards.
C12_WitnessRepeated ==
    /\ overall_info[1] # <<>>
    /\ overall_info[1][1] # InitOverallInfo(steps, 1)
    /\ \E s \in StepObjects \ {1} : overall_info[s] # <<>> /\ 1 \in Closure(steps, s)

\* C13: an edit that changes the bytes of a tracked file of a step, the value of one of
\* its settings or its base image descriptor changes the id of the step and of every
\* step built on it, directly or through other steps, and of no other step.
C13_SettingValueChanged(s) ==
    LET now == steps[s].additional_settings
        before == previous[1].steps[s].additional_settings
    IN /\ Len(now) = Len(before)
       /\ \A i \in DOMAIN now : now[i][1] = before[i][1]
       /\ now # before

C13_Changed(s) ==
    \/ /\ Paths(TrackedBytes(s)) = Paths(TrackedBytesBefore(s))
       /\ TrackedBytes(s) # TrackedBytesBefore(s)
    \/ C13_SettingValueChanged(s)
    \/ steps[s].base_step.image # previous[1].steps[s].base_step.image

C13_Sensitive ==
    previous # <<>> =>
        \A a \in StepObjects :
            C13_Changed(a) =>
                \A s \in StepObjects :
                    IF s = a \/ a \in Closure(steps, s)
                    THEN Id(steps, s) # previous[1].ids[s]
                    ELSE Id(steps, s) = previous[1].ids[s]

\* C13 for an edit that changes the bytes of one file at most.
C13_OneFileChanged ==
    \E path \in DOMAIN SOURCE_ROOT.entries :
        \A other \in DOMAIN SOURCE_ROOT.entries \ {path} :
            SOURCE_ROOT.entries[other] = previous[1].SOURCE_ROOT.entries[other]

C13_SensitiveToOneFile ==
    (previous # <<>> /\ C13_OneFileChanged) =>
        \A a \in StepObjects :
            C13_Changed(a) =>
                \A s \in StepObjects :
                    IF s = a \/ a \in Closure(steps, s)
                    THEN Id(steps, s) # previous[1].ids[s]
                    ELSE Id(steps, s) = previous[1].ids[s]

\* C14: giving the settings of a step in another insertion order, its globs in another
\* order, or having the file system yield the paths in another order changes no id.
C14_Permuted ==
    /\ SOURCE_ROOT.entries = previous[1].SOURCE_ROOT.entries
    /\ \A s \in StepObjects :
          LET now == steps[s]
              before == previous[1].steps[s]
          IN /\ Range(now.additional_settings) = Range(before.additional_settings)
             /\ Range(now.TRACKED_FILE_GLOBS) = Range(before.TRACKED_FILE_GLOBS)
             /\ [now EXCEPT !.additional_settings = <<>>, !.TRACKED_FILE_GLOBS = <<>>]
                   = [before EXCEPT !.additional_settings = <<>>,
                                    !.TRACKED_FILE_GLOBS = <<>>]

C14_OrderStable ==
    (previous # <<>> /\ C14_Permuted) =>
        \A s \in StepObjects : Id(steps, s) = previous[1].ids[s]

\* C14 witness: the settings and the globs of the first step and the listing of the
\* file system are all in the other order than at the start, the last of them just
\* changed.
C14_Witness ==
    /\ previous # <<>>
    /\ C14_Permuted
    /\ steps[1].additional_settings[1][1] = "w"
    /\ steps[1].TRACKED_FILE_GLOBS[1] = <<"steps", "*">>
    /\ SOURCE_ROOT.listing[1] = <<"a">>

\* The ignore patterns of the tree, and whether a pattern matches an entry.
IgnorePatterns == IgnoreGlobs(SOURCE_ROOT.entries[DockerignorePath].bytes)

MatchesIgnorePattern(path) ==
    \E i \in DOMAIN IgnorePatterns : PathMatch(AbsPath(path), IgnorePatterns[i])

BelowIgnoredDirectory(path) ==
    \E dir \in DOMAIN SOURCE_ROOT.entries :
        /\ SOURCE_ROOT.entries[dir].kind = "dir"
        /\ IsBelow(path, dir)
        /\ MatchesIgnorePattern(dir)

\* C15: no tracked file other than .dockerignore matches an ignore pattern or lies below
\* a directory that matches one, whether the globs matched that directory or not.
C15_IgnoredNotTracked ==
    \A s \in StepObjects :
        tracked_file_paths[s] # <<>> =>
            \A path \in Range(tracked_file_paths[s][1]) \ {DockerignorePath} :
                ~MatchesIgnorePattern(path) /\ ~BelowIgnoredDirectory(path)

\* C15 for the files that match a pattern themselves and the files below a directory
\* that the globs matched too.
C15_MatchedNotTracked ==
    \A s \in StepObjects :
        tracked_file_paths[s] # <<>> =>
            LET globs == TrackedFileGlobs(steps, s)
                found == UNION {Glob(SOURCE_ROOT, RelativeGlob(globs[i])) : i \in DOMAIN globs}
            IN \A path \in Range(tracked_file_paths[s][1]) \ {DockerignorePath} :
                  /\ ~MatchesIgnorePattern(path)
                  /\ \A dir \in DOMAIN SOURCE_ROOT.entries :
                        (AbsPath(dir) \in found /\ SOURCE_ROOT.entries[dir].kind = "dir"
                            /\ MatchesIgnorePattern(dir))
                        => ~IsBelow(path, dir)

\* C16: the tracked file list of a step names entries relative to the root, is sorted,
\* holds files only, and holds .dockerignore whatever the globs and the patterns are.
C16_TrackedList ==
    \A s \in StepObjects :
        tracked_file_paths[s] # <<>> =>
            LET list == tracked_file_paths[s][1]
            IN /\ \A i \in DOMAIN list :
                     /\ list[i] \in DOMAIN SOURCE_ROOT.entries
                     /\ SOURCE_ROOT.entries[list[i]].kind = "file"
               /\ \A i, j \in DOMAIN list : i < j => ~PathLess(list[j], list[i])
               /\ DockerignorePath \in Range(list)

\* C16 witness: the globs of the first step match a directory and .dockerignore, a
\* pattern matches .dockerignore, and the list of the step was made.
C16_Witness ==
    /\ tracked_file_paths[1] # <<>>
    /\ MatchesIgnorePattern(DockerignorePath)
    /\ <<"a">> \in Range(steps[1].TRACKED_FILE_GLOBS)
    /\ <<".dockerignore">> \in Range(steps[1].TRACKED_FILE_GLOBS)

\* C17: a Deployment created with a name that is registered raises an error and the
\* name maps to the deployment registered first as before; every registered name maps
\* to one deployment of that name, and get_deployment_by_name returns that object.
C17_Registry ==
    /\ \A d \in DOMAIN deployments :
          (\E e \in 1..(d - 1) :
              deployments[e].name = deployments[d].name /\ deployments[e].raised = <<>>)
          => deployments[d].raised # <<>>
    /\ \A name \in DOMAIN ALL_DEPLOYMENTS :
          LET d == GetDeploymentByName(name)
          IN /\ d \in DOMAIN deployments
             /\ deployments[d].name = name
             /\ deployments[d].raised = <<>>
             /\ \A e \in 1..(d - 1) :
                   deployments[e].name = name => deployments[e].raised # <<>>
    /\ \A d \in DOMAIN deployments :
          deployments[d].raised = <<>> =>
              /\ deployments[d].name \in DOMAIN ALL_DEPLOYMENTS
              /\ GetDeploymentByName(deployments[d].name) = d

\* C17 witness: a name was registered, then given to two more deployments, of which the
\* last got as far as the check of the name.
C17_Witness ==
    /\ Len(deployments) = 3
    /\ deployments[1].raised = <<>>
    /\ deployments[2].name = deployments[1].name
    /\ deployments[3].name = deployments[1].name
    /\ deployments[3].raised = <<"ValueError">>
    /\ deployments[3].steps # <<>>

\* C18: when deploy() of a deployment has ended, every step the deployment owns has run
\* against the build root: it has its output there, or a step failed.
C18_DeployRunsOwnedSteps ==
    deployed # <<>> =>
        \/ status = "failed"
        \/ \A s \in Range(deployments[deployed[1].deployment].steps) :
              Id(steps, s) \in DOMAIN output_dirs

\* C19: the list of cacheable steps computed for a step or for the final step, and the
\* list of their ids, holds no step more than once.
C19_NoDuplicates ==
    result_steps # <<>> =>
        IsInjective(result_steps[1].steps) /\ IsInjective(result_steps[1].ids)

\* The cacheable steps among a step and the steps it is built on.
CacheableOf(g, s) == {u \in {s} \cup Closure(g, s) : g[u].ci_cd_settings.cacheable}

\* The list is made of one stretch for every set of the sequence, in order, each
\* stretch holding the steps of its set and no other.
RECURSIVE InStretches(_, _)

InStretches(list, sets) ==
    IF sets = <<>> THEN list = <<>>
    ELSE \E n \in 0..Len(list) :
            /\ Range(SubSeq(list, 1, n)) = Head(sets)
            /\ InStretches(SubSeq(list, n + 1, Len(list)), Tail(sets))

\* C20: the steps all_used_cacheable_steps returns for a step are the cacheable steps
\* among the step and the steps it is built on, listed by dependency step in the order
\* of the dependency steps, then those of the base step, then the step itself.
C20_CacheableClosure ==
    (result_steps # <<>> /\ result_steps[1].of # 0) =>
        LET s == result_steps[1].of
            list == result_steps[1].steps
            deps == steps[s].dependency_steps
        IN /\ Range(list) = CacheableOf(steps, s)
           /\ InStretches(list,
                          [i \in DOMAIN deps |-> CacheableOf(steps, deps[i])]
                             \o <<IF BaseStepOf(steps, s) # 0
                                  THEN CacheableOf(steps, BaseStepOf(steps, s)) ELSE {},
                                  {s} \cap CacheableOf(steps, s)>>)

\* C20 witness: the list was computed for a step that is not cacheable and has a
\* dependency step and another step as its base step, of which one is not cacheable
\* and stands on a cacheable step.
C20_Witness ==
    /\ result_steps # <<>>
    /\ result_steps[1].of # 0
    /\ LET s == result_steps[1].of
       IN /\ ~steps[s].ci_cd_settings.cacheable
          /\ steps[s].dependency_steps # <<>>
          /\ BaseStepOf(steps, s) \notin {0} \cup Range(steps[s].dependency_steps)
          /\ \E u \in UpstreamOf(steps, s) :
                /\ ~steps[u].ci_cd_settings.cacheable
                /\ \E v \in UpstreamOf(steps, u) : steps[v].ci_cd_settings.cacheable

\* C21: once the execution of a step has failed in a run, no command of a step is
\* started in that run any more and no call of run is made: not for the remaining
\* dependency steps, the base step, the step built on the failed one, or the used steps
\* that follow; the exception reaches the caller of the top-level run, which ends
\* failed. Every command started earlier in the run had succeeded and was committed.
C21_Failed == status = "failed" \/ (status = "running" /\ stack # <<>> /\ Top.exc)

C21_EarlierSucceeded ==
    /\ \A i \in 1..(Len(executions) - 1) :
          /\ executions[i] \in DOMAIN output_dirs
          /\ output_dirs[executions[i]].output = "complete"
    /\ status = "failed" => (stack = <<>> /\ error # <<>>)
    /\ status = "done" => (error = <<>> /\ next_used > Len(used_steps))

C21_FailFast ==
    /\ []C21_EarlierSucceeded
    /\ [][C21_Failed =>
             /\ Len(executions') <= Len(executions)
             /\ Len(stack') <= Len(stack)
             /\ status' # "done"
             /\ (status = "running" => (status' = "failed" /\ error' # <<>>))
             /\ (status' = "failed" => (error' = error \/ status = "running"))]_vars

\* C21 witness: the dependency step of a step has failed, and the run is over with the
\* base step of that step, of another id, neither executed nor committed.
C21_Witness ==
    /\ StepFailed
    /\ \E p \in StepObjects :
          /\ steps[p].dependency_steps # <<>>
          /\ Carries(error[1], Id(steps, steps[p].dependency_steps[1]))
          /\ BaseStepOf(steps, p) # 0
          /\ Id(steps, BaseStepOf(steps, p)) \notin
                DOMAIN output_dirs \cup Range(executions)
          /\ Id(steps, p) \notin DOMAIN output_dirs \cup Range(executions)

\* C22: in the run that follows a failed run against the same build root, only steps
\* without a committed cache entry are executed: a step that was committed before the
\* failure and whose id is unchanged is found cached and its command is not started
\* again, while every step whose fingerprint changed has been executed when the rerun
\* is done.
C22_RerunExecutesUncommitted ==
    previous # <<>> =>
        /\ \A i \in DOMAIN executions : executions[i] \notin previous[1].committed
        /\ \A s \in StepObjects :
              (Id(steps, s) = previous[1].ids[s] /\ Id(steps, s) \in previous[1].committed)
                 => /\ Id(steps, s) \in DOMAIN output_dirs
                    /\ Id(steps, s) \notin Range(executions)
        /\ status = "done" =>
              \A s \in StepObjects :
                 OverallInfoStr(steps, s) # previous[1].info[s] =>
                    /\ Id(steps, s) # previous[1].ids[s]
                    /\ Id(steps, s) \in Range(executions)

\* C22 witness: the rerun is done; one step committed before the failure was not
\* executed again, another step committed before the failure was executed again under
\* its changed id, and so was the step that had failed.
C22_Witness ==
    /\ previous # <<>>
    /\ status = "done"
    /\ \E s, t, u \in StepObjects :
          /\ previous[1].ids[s] \in previous[1].committed
          /\ Id(steps, s) = previous[1].ids[s]
          /\ Id(steps, s) \notin Range(executions)
          /\ previous[1].ids[t] \in previous[1].committed
          /\ Id(steps, t) # previous[1].ids[t]
          /\ Id(steps, t) \in Range(executions)
          /\ previous[1].ids[u] \notin previous[1].committed
          /\ Id(steps, u) = previous[1].ids[u]
          /\ Id(steps, u) \in Range(executions)

\* The environment a command started by "docker run" gets from the "-e" options: the
\* name before the first "=", the value after it, a later option replacing an earlier.
RECURSIVE ContainerEnv(_, _)

ContainerEnv(env, options) ==
    IF options = <<>> THEN env
    ELSE ContainerEnv(Assign(env, Head(options)[1],
                             SubSeq(Head(options), 3, Len(Head(options)))),
                      Tail(options))

\* The command of the innermost step has been started and has not exited.
CommandRuns == status = "running" /\ stack # <<>> /\ Top.pc \in {"local_wait", "docker_wait"}

\* The environment the running command has.
ReceivedEnv ==
    IF last_cmd.cmd = "docker run" THEN ContainerEnv(<<>>, last_cmd.env) ELSE last_cmd.env

\* C23: in both execution modes the command of a step has in its environment the
\* output path and the source root as the command sees them, every setting of the step
\* that has a value, and, when the build runs in CI/CD, the entry IN_CICD.
C23_Has(env, name, value) == name \in DOMAIN env /\ env[name] = value

C23_Paths(env) ==
    IF last_cmd.cmd = "docker run"
    THEN /\ C23_Has(env, "STEP_OUTPUT_PATH", PathStr(InDockerOutputPath))
         /\ C23_Has(env, "SOURCE_ROOT", PathStr(InDockerSourceRootPath))
    ELSE /\ C23_Has(env, "STEP_OUTPUT_PATH", PathStr(InBuildRoot(TempOutputDirectory(SelfId))))
         /\ C23_Has(env, "SOURCE_ROOT", PathStr(SourceRootPath(SelfId)))

C23_Settings(env, settings) ==
    \A i \in DOMAIN settings :
        settings[i][2] # <<>> => C23_Has(env, settings[i][1], settings[i][2])

C23_CommandEnvironment ==
    CommandRuns =>
        /\ C23_Paths(ReceivedEnv)
        /\ C23_Settings(ReceivedEnv, steps[Self].additional_settings)
        /\ IN_CICD => "IN_CICD" \in DOMAIN ReceivedEnv

\* C24: from the end of _prepare_working_source_root until the command of the step
\* exits, the isolated source root of the step holds the tracked files of the step with
\* their bytes, each at its path relative to the source root of the project, and nothing
\* else: what an earlier execution of the same id left there is gone.
C24_SourceRootOfTrackedFiles ==
    (status = "running" /\ stack # <<>>
        /\ Top.pc \in {"local", "local_wait", "docker_rm", "docker_run", "docker_wait"}) =>
        /\ SelfId \in DOMAIN source_roots
        /\ source_roots[SelfId].files = Range(TrackedBytes(Self))
        /\ ~source_roots[SelfId].left
        /\ \A f \in source_roots[SelfId].files :
              /\ f[1] \in DOMAIN SOURCE_ROOT.entries
              /\ SOURCE_ROOT.entries[f[1]].kind = "file"
              /\ f[2] = SOURCE_ROOT.entries[f[1]].bytes

\* C24 witness: the command of a step runs in a source root that replaced the one an
\* earlier execution of the same id had left, with files of that command in it.
C24_Witness ==
    /\ CommandRuns
    /\ "source" \in Top.removed
    /\ source_roots[SelfId].files # {}
    /\ ~source_roots[SelfId].left

\* C25: for the settings of a step whose command is started, the NAME=VALUE entries
\* that _run_in_docker passes for them with "-e" are the entries that _run_locally puts
\* into the environment for them, also when a value is None.
C25_LocalEntries(env) == {<<name, "=">> \o env[name] : name \in DOMAIN env}

C25_DockerEntries(settings, options) == {options[i] : i \in DOMAIN settings}

C25_SameSettingsEntries ==
    CommandRuns =>
        C25_DockerEntries(steps[Self].additional_settings,
                          EnvVariablesOptions(steps[Self].additional_settings))
            = C25_LocalEntries(SetSettings(<<>>, steps[Self].additional_settings))

\* C26: from the creation of the temporary directory of a step until the command of
\* the step exits, the directory holds the step_info file just written and nothing
\* else, also when an earlier failed or interrupted execution of the same id had left
\* a temporary directory with output in it.
C26_TempDirFresh ==
    (status = "running" /\ stack # <<>>
        /\ Top.pc \in {"source", "local", "local_wait", "docker_rm", "docker_run",
                       "docker_wait"}) =>
        /\ SelfId \in DOMAIN temp_dirs
        /\ temp_dirs[SelfId] = [step_info |-> OverallInfoStr(steps, Self),
                                output |-> "none", tar |-> <<>>,
                                skip_cache_to_cicd |-> FALSE]

\* C26 witness: the command of a step runs after the call of run has removed the
\* temporary directory an earlier execution had left.
C26_Witness ==
    /\ CommandRuns
    /\ "temp" \in Top.removed
    /\ temp_dirs[SelfId].output = "none"

\* C27: no step of the call of run of a dependency step that runs in docker commits or
\* saves an image: the local images stay as they are, no "docker commit", "docker save",
\* "docker images" or "docker load" is issued, no <id>.tar comes into the temporary
\* directory or into the cache entry the call commits, and the entries that exist stay
\* as they are; a cache hit of such a step issues no command at all.
C27_ImageCommands == {"docker commit", "docker save", "docker images", "docker load"}

C27_NoImageOfDependencyStep ==
    [][(status = "running" /\ stack # <<>> /\ steps[Self].is_dependency_step) =>
          /\ images' = images
          /\ last_cmd'.cmd \notin C27_ImageCommands \/ last_cmd'.cmd = last_cmd.cmd
          /\ SelfId \in DOMAIN temp_dirs' => temp_dirs'[SelfId].tar = <<>>
          /\ \A id \in DOMAIN output_dirs' :
                IF id \in DOMAIN output_dirs THEN output_dirs'[id] = output_dirs[id]
                ELSE id = SelfId /\ output_dirs'[id].tar = <<>>
          /\ (Top.pc = "check" /\ SelfId \in DOMAIN output_dirs) =>
                (last_cmd'.cmd = last_cmd.cmd /\ stack' = Pop)]_vars

\* C27 witness: the command of a dependency step has succeeded in its container, the
\* container is removed, and the temporary directory is about to be committed with no
\* image file in it and no image of the step's name in the docker daemon.
C27_Witness ==
    /\ At("rename")
    /\ steps[Self].is_dependency_step
    /\ DockerExec(Self)
    /\ temp_dirs[SelfId].output = "complete"
    /\ temp_dirs[SelfId].tar = <<>>
    /\ SelfId \notin DOMAIN images

\* C28: when "docker run" is issued for a step that has a base step, an image of the
\* name of the base step's result image is among the local images, whatever the base
\* step is: a dependency step or not, executed in this run or found cached.
C28_BaseImageAvailable ==
    (At("docker_run") /\ BaseStepOf(steps, Self) # 0) =>
        ResultImage(steps, BaseStepOf(steps, Self))[1].name \in DOMAIN images

\* C29: every committed cache entry holds the step_info file as it was written before
\* the command started, and its directory name is the lowered name of a step followed
\* by "__" and the digest of the content of that file; the content is the fingerprint
\* of that step with the settings in the order of their names and with the
\* fingerprints of its dependency steps and its base step inside.
C29_KeySorted(info) ==
    \A i, j \in DOMAIN info.additional_settings :
        i < j => Rank(info.additional_settings[i][1]) < Rank(info.additional_settings[j][1])

C29_Describes(id, info, s) ==
    /\ id = Lower(steps[s].name \o <<"_", "_">>) \o <<Sha256Hex(info)>>
    /\ info.name = steps[s].name
    /\ Range(info.additional_settings) = Range(steps[s].additional_settings)
    /\ C29_KeySorted(info)
    /\ Len(info.dependency_steps) = Len(steps[s].dependency_steps)
    /\ \A i \in DOMAIN info.dependency_steps :
          info.dependency_steps[i] = OverallInfoStr(steps, steps[s].dependency_steps[i])
    /\ info.base_step = IF BaseStepOf(steps, s) # 0
                        THEN <<OverallInfoStr(steps, BaseStepOf(steps, s))>> ELSE <<>>
    /\ info.used_files = [i \in DOMAIN TrackedBytes(s) |-> PathStr(TrackedBytes(s)[i][1])]

C29_EntrySelfDescribing ==
    /\ \A id \in DOMAIN output_dirs :
          \E s \in StepObjects : C29_Describes(id, output_dirs[id].step_info, s)
    /\ (status = "running" /\ stack # <<>> /\ Top.pc \in ExecutingPcs) =>
          C29_Describes(SelfId, temp_dirs[SelfId].step_info, Self)

\* C29 witness: the entry of a step with two settings, declared against the order of
\* their names, with dependency steps and a base step, is committed.
C29_Witness ==
    \E s \in StepObjects :
        /\ Id(steps, s) \in DOMAIN output_dirs
        /\ Len(steps[s].additional_settings) = 2
        /\ ~C29_KeySorted(steps[s])
        /\ steps[s].dependency_steps # <<>>
        /\ BaseStepOf(steps, s) # 0

\* C30: the command of a step gets, after the interpreter and the script, one argument
\* for each dependency step, in the order of the list. Started by "docker run", the
\* output directory of the i-th dependency step is mounted at
\* /tmp/step/dependencies/<name of that directory> and the i-th argument is that mount
\* target; started on the current machine, the i-th argument is the output directory
\* of the i-th dependency step below the build root.
C30_HostOutput(s) == PathStr(InBuildRoot(<<"step_outputs", Id(steps, s)>>))

C30_MountTarget(s) == PathStr(<<"", "tmp", "step", "dependencies", Id(steps, s)>>)

C30_InDocker(cmd, deps) ==
    /\ Len(cmd.volumes) = Len(deps) + 2
    /\ \A i \in DOMAIN deps :
          /\ cmd.volumes[i + 2].host = C30_HostOutput(deps[i])
          /\ cmd.volumes[i + 2].target = C30_MountTarget(deps[i])
          /\ cmd.args[i + 2] = cmd.volumes[i + 2].target

C30_Locally(cmd, deps) == \A i \in DOMAIN deps : cmd.args[i + 2] = C30_HostOutput(deps[i])

C30_DependencyArguments ==
    CommandRuns =>
        /\ Len(last_cmd.args) = Len(steps[Self].dependency_steps) + 2
        /\ IF last_cmd.cmd = "docker run"
           THEN C30_InDocker(last_cmd, steps[Self].dependency_steps)
           ELSE C30_Locally(last_cmd, steps[Self].dependency_steps)

\* C37: on a cache miss a step goes to exactly one backend: _run_in_docker if and only
\* if the step has an effective base image (its own, or one inherited through its base
\* steps) and the engine does not itself run in a container, _run_locally otherwise;
\* while a step is with the local backend no image is committed or saved, no docker
\* command is issued and no image file comes into its temporary directory.
C37_DockerPcs ==
    {"docker_rm", "docker_run", "docker_wait", "docker_commit", "docker_save",
     "docker_finally"}

C37_LocalPcs == {"local", "local_wait"}

RECURSIVE C37_HasEffectiveBaseImage(_, _)

C37_HasEffectiveBaseImage(g, s) ==
    CASE g[s].base_step.kind = "image" -> TRUE
      [] g[s].base_step.kind = "step" -> C37_HasEffectiveBaseImage(g, g[s].base_step.step)
      [] OTHER -> FALSE

C37_Containerized(s) == C37_HasEffectiveBaseImage(steps, s) /\ ~IN_DOCKER

C37_OneBackend ==
    [][(status = "running" /\ stack # <<>>) =>
          /\ (Top.pc = "source" /\ Len(stack') = Len(stack)) =>
                stack'[Len(stack')].pc =
                    IF C37_Containerized(Self) THEN "docker_rm" ELSE "local"
          /\ Top.pc \in C37_DockerPcs => C37_Containerized(Self)
          /\ Top.pc \in C37_LocalPcs =>
                /\ ~C37_Containerized(Self)
                /\ images' = images
                /\ container' = container
                /\ last_cmd'.cmd \in {"script", last_cmd.cmd}
          /\ (Top.pc = "rename" /\ ~C37_Containerized(Self)) =>
                /\ images' = images
                /\ temp_dirs[SelfId].tar = <<>>
                /\ SelfId \in DOMAIN output_dirs' => output_dirs'[SelfId].tar = <<>>]_vars

\* C37 witness: the engine runs in a container itself, and the command of a step that
\* inherits a base image through its base step runs with the local backend.
C37_Witness ==
    /\ At("local_wait")
    /\ IN_DOCKER
    /\ BaseStepOf(steps, Self) # 0
    /\ C37_HasEffectiveBaseImage(steps, Self)
    /\ last_cmd.cmd = "script"

\* C38: a step runs in a container exactly when its base-step chain ends at an explicit
\* base image (its own, or that of a base step below it), and then its result image has
\* the architecture of that image, as has the result image of every step below it on
\* the chain; the platform of every "docker run" of the step is that architecture.
RECURSIVE C38_RootImage(_, _)

C38_RootImage(g, s) ==
    CASE g[s].base_step.kind = "image" -> g[s].base_step.image
      [] g[s].base_step.kind = "step" -> C38_RootImage(g, g[s].base_step.step)
      [] OTHER -> <<>>

C38_InheritedAlongChain ==
    /\ \A s \in StepObjects :
          /\ RunsInDocker(steps, s) <=> C38_RootImage(steps, s) # <<>>
          /\ RunsInDocker(steps, s) <=>
                \/ steps[s].base_step.kind = "image"
                \/ /\ BaseStepOf(steps, s) # 0
                   /\ RunsInDocker(steps, BaseStepOf(steps, s))
          /\ IF RunsInDocker(steps, s)
             THEN /\ ResultImage(steps, s)[1].architecture =
                        C38_RootImage(steps, s)[1].architecture
                  /\ BaseStepOf(steps, s) # 0 =>
                        ResultImage(steps, BaseStepOf(steps, s))[1].architecture =
                            ResultImage(steps, s)[1].architecture
             ELSE ResultImage(steps, s) = <<>>
    /\ (status = "running" /\ stack # <<>> /\ last_cmd.cmd = "docker run") =>
          last_cmd.platform = C38_RootImage(steps, Self)[1].architecture

\* C38 witness: a run is done in which a step built on a base step above an arm64 image
\* was executed in a container and committed its image.
C38_Witness ==
    /\ status = "done"
    /\ \E s \in StepObjects :
          /\ BaseStepOf(steps, s) # 0
          /\ C38_RootImage(steps, s) = <<Arm64Image>>
          /\ Id(steps, s) \in DOMAIN images
          /\ Id(steps, s) \in Range(executions)

\* C32: every step the engine takes within a call of run of a step S leaves the
\* temporary, the final and the source-root directory of every other identity as they
\* are: none is created, renamed, deleted or changed; outside a call of run the engine
\* changes no directory at all; and the calls on the stack are those of S and of the
\* steps S is built on, each one called by the one below it.
C32_Same(dirs, dirs_after, id) ==
    /\ id \in DOMAIN dirs <=> id \in DOMAIN dirs_after
    /\ id \in DOMAIN dirs => dirs_after[id] = dirs[id]

C32_OwnDirectoriesOnly ==
    [][status = "running" =>
          /\ \A id \in DOMAIN output_dirs \cup DOMAIN output_dirs' :
                (stack = <<>> \/ id # SelfId) => C32_Same(output_dirs, output_dirs', id)
          /\ \A id \in DOMAIN temp_dirs \cup DOMAIN temp_dirs' :
                (stack = <<>> \/ id # SelfId) => C32_Same(temp_dirs, temp_dirs', id)
          /\ \A id \in DOMAIN source_roots \cup DOMAIN source_roots' :
                (stack = <<>> \/ id # SelfId) => C32_Same(source_roots, source_roots', id)
          /\ \A i \in 2..Len(stack) :
                stack[i].step \in UpstreamOf(steps, stack[i - 1].step)]_vars

\* C32 witness: a step is about to commit its temporary directory while the entries and
\* the source roots of two steps it is built on, of identities of their own, are in the
\* build root.
C32_Witness ==
    /\ At("rename")
    /\ SelfId \in DOMAIN temp_dirs
    /\ \E u, v \in UpstreamOf(steps, Self) :
          /\ Cardinality({SelfId, Id(steps, u), Id(steps, v)}) = 3
          /\ {Id(steps, u), Id(steps, v)} \subseteq DOMAIN output_dirs
          /\ {Id(steps, u), Id(steps, v)} \subseteq DOMAIN source_roots

\* C35: every run of FinalStep.run over a finite acyclic step graph whose commands exit
\* comes to an end, done or failed; every call of run on a step ends in exactly one of
\* three ways: cache hit (the entry was there, no command started, nothing changed),
\* completed (the command of the step was started once in the call, it was the last one
\* started, and the entry is committed by the rename), or failed (an exception leaves
\* the call, nothing is committed by it); and no call starts the command of its step
\* more than once.
C35_Count(list, e) == Cardinality({i \in DOMAIN list : list[i] = e})

C35_Ends == status = "running" /\ stack # <<>> /\ Len(stack') < Len(stack)

C35_CacheHit ==
    /\ Top.pc = "check"
    /\ SelfId \in DOMAIN output_dirs
    /\ stack' = Pop
    /\ status' = "running"
    /\ executions' = executions
    /\ output_dirs' = output_dirs

C35_Completed ==
    /\ Top.pc = "rename"
    /\ stack' = Pop
    /\ status' = "running"
    /\ SelfId \notin DOMAIN output_dirs
    /\ SelfId \in DOMAIN output_dirs'
    /\ executions' = executions
    /\ C35_Count(executions, SelfId) = 1
    /\ executions[Len(executions)] = SelfId

C35_Failed ==
    /\ stack' = <<>>
    /\ status' = "failed"
    /\ error' # <<>>
    /\ output_dirs' = output_dirs
    /\ executions' = executions
    /\ C35_Count(executions, SelfId) <= 1

C35_Terminates == (status = "running") ~> (status \in {"done", "failed"})

C35_OneOutcome ==
    [][C35_Ends =>
          Cardinality({o \in {"hit", "completed", "failed"} :
                          \/ o = "hit" /\ C35_CacheHit
                          \/ o = "completed" /\ C35_Completed
                          \/ o = "failed" /\ C35_Failed}) = 1]_vars

C35_TerminatesInOneOutcome == C35_Terminates /\ C35_OneOutcome

\* C35 witness: a run is done in which a step had the same step as its dependency step
\* and as its base step: the call for the dependency step executed and committed it,
\* the call for the base step found it cached, and then the step itself was executed
\* and committed.
C35_Witness ==
    /\ status = "done"
    /\ \E s \in StepObjects :
          /\ BaseStepOf(steps, s) # 0
          /\ BaseStepOf(steps, s) \in Range(steps[s].dependency_steps)
          /\ Id(steps, BaseStepOf(steps, s)) \in Range(executions)
          /\ Id(steps, s) = executions[Len(executions)]
          /\ Id(steps, s) \in DOMAIN output_dirs

\* C35 as stated: every call of run that is no cache hit has started the command of its
\* step exactly once when it ends.
C35_NotHitExecutesOnce ==
    [][(status = "running" /\ status' = "failed") =>
          \A i \in DOMAIN stack :
              (stack[i].pc # "check") =>
                  C35_Count(executions', Id(steps, stack[i].step)) = 1]_vars

\* C31: for every committed entry <id>, the tracked files that were copied into the
\* isolated source root of the execution that produced the entry hash to the files
\* checksum held in the fingerprint <id> is the digest of, whatever the order of the
\* evaluation of the id, the writes to the source tree and the steps of the run.
C31_ListOf(set) ==
    CHOOSE q \in [1..Cardinality(set) -> set] : \A i, j \in DOMAIN q : q[i] = q[j] => i = j

C31_TreeOf(files) ==
    [entries |-> [path \in {f[1] : f \in files} |->
                     [kind |-> "file", bytes |-> (CHOOSE f \in files : f[1] = path)[2]]]]

C31_ChecksumOfCopied(files) ==
    CalculateFilesChecksum(C31_TreeOf(files), C31_ListOf({f[1] : f \in files}))

\* The fingerprint an id is the digest of: Sha256Hex keeps what it digests.
C31_Fingerprint(id) == id[Len(id)][2]

C31_BuiltFromHashedContent ==
    \A id \in DOMAIN output_dirs :
        /\ id \in DOMAIN source_roots
        /\ C31_ChecksumOfCopied(source_roots[id].files) = C31_Fingerprint(id).files_checksum

\* C39: once the _overall_info of a step object is set it stays as it is, and step.id
\* is the digest of it whatever the source tree holds by now; so within a call of run
\* the temporary directory, the isolated source root, the directories given to the
\* command, the container and the image tag bear the one id of the step, and the
\* directory the rename is to create is the one that was found missing at the start of
\* the call and is still missing.
C39_FrameOfOneIdentity(f) ==
    LET id == Id(steps, f.step)
        top == f = Top
    IN /\ overall_info[f.step] # <<>> \/ f.pc = "check"
       /\ f.pc # "check" => id \notin DOMAIN output_dirs
       /\ f.pc \in ExecutingPcs => id \in DOMAIN temp_dirs
       /\ f.pc \in ExecutingPcs \ {"source"} => id \in DOMAIN source_roots
       /\ (top /\ f.pc \in {"local_wait", "docker_wait"}) =>
             /\ last_cmd.output = TempOutputDirectory(id)
             /\ executions[Len(executions)] = id
       /\ (top /\ f.pc = "local_wait") => last_cmd.cwd = PathStr(SourceRootPath(id))
       /\ (top /\ f.pc = "docker_wait") => container[1].step = id
       /\ (top /\ f.pc = "docker_save") =>
             /\ ResultImage(steps, f.step)[1].name = id
             /\ id \in DOMAIN images

C39_IdKept ==
    /\ [](\A s \in StepObjects :
             overall_info[s] # <<>> =>
                 Id(steps, s) = StepIdOf(steps[s].name, JsonDumps(overall_info[s][1])))
    /\ [](status = "running" => \A i \in DOMAIN stack : C39_FrameOfOneIdentity(stack[i]))
    /\ [][\A s \in StepObjects :
             overall_info[s] # <<>> => overall_info'[s] = overall_info[s]]_vars

\* C39 witness: the source tree was written after the id of a step was evaluated, the
\* step was executed in a container, and its image is about to be saved under the id
\* that was evaluated, which is not the one the tree would give now.
C39_Witness ==
    /\ At("docker_save")
    /\ SelfId \in DOMAIN images
    /\ SelfId \in DOMAIN temp_dirs
    /\ SelfId # StepIdOf(steps[Self].name, JsonDumps(InitOverallInfo(steps, Self)))

\* C36: when the evaluation of a step meets, among the steps it is built on, a step
\* that is being evaluated already in the current run (the graph has a cycle), the run
\* ends there with a configuration error, and no command is started.
C36_Encountered ==
    /\ At("info")
    /\ Top.i <= Len(UpstreamList(steps, Self))
    /\ \E k \in DOMAIN stack :
          /\ stack[k].pc = "info"
          /\ stack[k].step = UpstreamList(steps, Self)[Top.i]

C36_CycleIsConfigurationError ==
    [][C36_Encountered =>
          /\ status' = "failed"
          /\ error' # <<>>
          /\ error'[1].type = "ConfigurationError"
          /\ executions' = executions]_vars

\* C33: of two processes that run a step of the same identity over one build root at
\* the same time, at most one has the command of that identity in flight at any time.
C33_InFlightHere ==
    IF \/ At("local_wait")
       \/ At("docker_wait") /\ container # <<>> /\ container[1].owner = Pid
    THEN {SelfId}
    ELSE {}

C33_InFlightPeer ==
    IF peer.status = "running" /\ peer.stack # <<>>
    THEN LET top == peer.stack[Len(peer.stack)]
         IN IF \/ top.pc = "local_wait"
               \/ /\ top.pc = "docker_wait"
                  /\ container # <<>>
                  /\ container[1].owner = peer.pid
            THEN {Id(steps, top.step)}
            ELSE {}
    ELSE {}

C33_SingleFlight == C33_InFlightHere \cap C33_InFlightPeer = {}

\* C34: while the other process waits for the command in the container it created,
\* neither "docker rm -f" of this process (before the container is created, and in the
\* finally clause) removes that container.
C34_PeerRuns ==
    /\ container # <<>>
    /\ container[1].owner = peer.pid
    /\ container[1].running
    /\ peer.status = "running"
    /\ peer.stack # <<>>
    /\ peer.stack[Len(peer.stack)].pc = "docker_wait"

C34_CleanupSparesPeer ==
    [][(C34_PeerRuns /\ (At("docker_rm") \/ At("docker_finally"))) =>
          container' = container]_vars

====
